---- MODULE Spec2Model ----
(***************************************************************************)
(* A model of the Shopify public app: the webhook signature verifier       *)
(* (src/app.py verify_webhook), the five webhook endpoints with the task   *)
(* queue behind them, the worker tasks that merge vendor payloads into the *)
(* local store (src/app.py and src/tasks.py) and the store itself          *)
(* (src/models.py).                                                        *)
(*                                                                         *)
(* Python values are records [t, v]: t is the Python type ("none", "str",  *)
(* "bytes") and v the sequence of code points or byte values.  Text is     *)
(* ASCII, so str.encode('utf-8') keeps v.                                  *)
(***************************************************************************)
EXTENDS Integers, Sequences, FiniteSets, TLC

VARIABLES
    WEBHOOK_SECRET,   \* app.py:92, the module global read from the environment
    vcall,            \* the last direct call of verify_webhook: its arguments and outcome
    shops,            \* the committed rows of table shops (models.py Shop)
    product_sync,     \* the committed rows of table product_sync (models.py ProductSync)
    order_sync,       \* the committed rows of table order_sync (models.py OrderSync)
    webhook_logs,     \* the committed rows of table webhook_logs (models.py WebhookLog)
    product_variants, \* the committed rows of table product_variants (models.py ProductVariant)
    order_line_items, \* the committed rows of table order_line_items (models.py OrderLineItem)
    inventory_levels, \* the committed rows of table inventory_levels (models.py InventoryLevel)
    session,          \* the Flask session of the one browser: session['oauth_state']
    workers,          \* per worker process: the task it is in the middle of
    queue,            \* the broker's queue of the tasks sent with .delay(), oldest first
    last              \* the last event: an HTTP request with its response, or a task run

store ==
    <<shops, product_sync, order_sync, webhook_logs, product_variants,
      order_line_items, inventory_levels>>
vars ==
    <<WEBHOOK_SECRET, vcall, shops, product_sync, order_sync, webhook_logs,
      product_variants, order_line_items, inventory_levels, session, workers,
      queue, last>>

\* The session before /auth stored a state in it.
NoSession == [oauth_state |-> ""]
\* What the webhook pipeline and the tasks never touch.
rest == <<product_variants, order_line_items, inventory_levels, session, workers>>
\* The worker processes, and a worker between two tasks.
Workers == {1, 2}
Idle == [pc |-> "idle"]

----------------------------------------------------------------------------
(* Python values *)

None == [t |-> "none", v |-> <<>>]
Str(s) == [t |-> "str", v |-> s]
Bytes(s) == [t |-> "bytes", v |-> s]

\* Python truthiness of None, str and bytes: `not x` is True for None and for
\* the empty string.
Truthy(x) == x.t # "none" /\ Len(x.v) > 0

RECURSIVE SumSeq(_)
SumSeq(s) == IF s = <<>> THEN 0 ELSE Head(s) + SumSeq(Tail(s))

----------------------------------------------------------------------------
(* Bounds *)

\* The longest raw body of a direct verify_webhook call.
MaxBodyLen == 2
\* The byte values such a body is made of are 0 .. MaxByte.
MaxByte == 1

----------------------------------------------------------------------------
(* hmac / hashlib / base64 *)

\* hashlib.sha256().digest_size
DigestSize == 32

\* The HMAC-SHA256 digest of msg under key.  SHA-256 itself is library code
\* that TLC cannot run; what the verifier relies on is that the digest is a
\* function of (key, msg) with DigestSize bytes that differs for different
\* messages and keys (collision freedom).  This stand-in has exactly those
\* properties for every message shorter than DigestSize - 1 bytes: byte 1
\* carries the length, bytes 2.. carry the message, every byte is shifted by
\* the key.
HmacSha256(key, msg) ==
    LET ks == SumSeq(key) % 256
        digest == [i \in 1..DigestSize |->
                      IF i = 1 THEN (Len(msg) + ks) % 256
                      ELSE IF i <= Len(msg) + 1 THEN (msg[i - 1] + 31 * i + ks) % 256
                      ELSE (17 * i + 7 * ks) % 256]
    IN  SubSeq(digest, 1, DigestSize)

\* The base64 alphabet, as code points: A-Z a-z 0-9 + /
B64Char(n) ==
    IF n < 26 THEN 65 + n
    ELSE IF n < 52 THEN 97 + (n - 26)
    ELSE IF n < 62 THEN 48 + (n - 52)
    ELSE IF n = 62 THEN 43 ELSE 47

\* '='
B64Pad == 61

\* base64.b64encode(b): every group of three bytes becomes four characters,
\* a last group of one or two bytes is padded with '='.
b64encode(b) ==
    LET n == Len(b)
        At(k) == IF k <= n THEN b[k] ELSE 0
        text == [j \in 1..(4 * ((n + 2) \div 3)) |->
                    LET g == (j - 1) \div 4
                        pos == (j - 1) % 4
                        b0 == At(3 * g + 1)
                        b1 == At(3 * g + 2)
                        b2 == At(3 * g + 3)
                    IN  IF pos = 0 THEN B64Char(b0 \div 4)
                        ELSE IF pos = 1 THEN B64Char((b0 % 4) * 16 + (b1 \div 16))
                        ELSE IF pos = 2
                             THEN IF 3 * g + 2 > n THEN B64Pad
                                  ELSE B64Char((b1 % 16) * 4 + (b2 \div 64))
                        ELSE IF 3 * g + 3 > n THEN B64Pad ELSE B64Char(b2 % 64)]
    IN  SubSeq(text, 1, 4 * ((n + 2) \div 3))

\* hmac.compare_digest(a, b) on two bytes objects: equality (its timing is
\* not modelled).
compare_digest(a, b) == a = b

----------------------------------------------------------------------------
(* verify_webhook, app.py:108-157 *)

\* An outcome of verify_webhook: the value returned (ret), whether an
\* exception left the function (raised), whether the try block raised
\* (error) and whether the content comparison was performed (compared).
Outcome(ret, raised, error, compared) ==
    [ret |-> ret, raised |-> raised, error |-> error, compared |-> compared]

\* app.py:131-139: the base64 text of the digest of data under the secret.
\* hmac.new(key, None, ...) digests the empty message.
calculated_hmac_base64(data) ==
    b64encode(HmacSha256(WEBHOOK_SECRET.v, data.v))

\* Mutants of verify_try: the raw digest compared with the header, and the
\* length check left out.
verify_try_raw_digest(data, signature) ==
    IF data.t = "str"
    THEN Outcome(FALSE, TRUE, TRUE, FALSE)
    ELSE LET calculated == calculated_hmac_base64(data)
         IN  IF Len(calculated) # Len(signature.v)
             THEN Outcome(FALSE, FALSE, FALSE, FALSE)
             ELSE IF signature.t # "str"
             THEN Outcome(FALSE, TRUE, TRUE, FALSE)
             ELSE Outcome(compare_digest(HmacSha256(WEBHOOK_SECRET.v, data.v),
                                         signature.v),
                          FALSE, FALSE, TRUE)

verify_try_no_length_check(data, signature) ==
    IF data.t = "str"
    THEN Outcome(FALSE, TRUE, TRUE, FALSE)
    ELSE LET calculated == calculated_hmac_base64(data)
         IN  IF signature.t # "str"
             THEN Outcome(FALSE, TRUE, TRUE, FALSE)
             ELSE Outcome(compare_digest(calculated, signature.v), FALSE, FALSE, TRUE)

\* app.py:130-153, the body of the try block.  hmac.new raises TypeError for
\* a str message; bytes has no .encode, so a signature that is not a str
\* raises AttributeError at line 148.
verify_try(data, signature) ==
    IF data.t = "str"
    THEN Outcome(FALSE, TRUE, TRUE, FALSE)
    ELSE LET calculated == calculated_hmac_base64(data)
         IN  IF Len(calculated) # Len(signature.v)
             THEN Outcome(FALSE, FALSE, FALSE, FALSE)
             ELSE IF signature.t # "str"
             THEN Outcome(FALSE, TRUE, TRUE, FALSE)
             ELSE Outcome(compare_digest(calculated, signature.v), FALSE, FALSE, TRUE)

\* Mutant: the try block without its except clause.
verify_guarded_no_except(data, signature) == verify_try(data, signature)

\* app.py:130-157, the try block under its handler: `except Exception`
\* turns every exception of the block into the value False.
verify_guarded(data, signature) ==
    LET r == verify_try(data, signature)
    IN  IF r.raised THEN Outcome(FALSE, FALSE, TRUE, r.compared) ELSE r

\* app.py:120-124: with no secret configured every request is accepted.
secret_missing(secret) == ~Truthy(secret)

\* app.py:126-128: an absent or empty signature header.
signature_missing(signature) == ~Truthy(signature)

\* Mutant: an absent header taken as "nothing to verify".
verify_webhook_missing_accepts(data, signature) ==
    IF secret_missing(WEBHOOK_SECRET) THEN Outcome(TRUE, FALSE, FALSE, FALSE)
    ELSE IF signature_missing(signature) THEN Outcome(TRUE, FALSE, FALSE, FALSE)
    ELSE verify_guarded(data, signature)

\* Mutant: no secret configured fails closed.
verify_webhook_fail_closed(data, signature) ==
    IF secret_missing(WEBHOOK_SECRET) THEN Outcome(FALSE, FALSE, FALSE, FALSE)
    ELSE IF signature_missing(signature) THEN Outcome(FALSE, FALSE, FALSE, FALSE)
    ELSE verify_guarded(data, signature)

verify_webhook(data, signature) ==
    IF secret_missing(WEBHOOK_SECRET) THEN Outcome(TRUE, FALSE, FALSE, FALSE)
    ELSE IF signature_missing(signature) THEN Outcome(FALSE, FALSE, FALSE, FALSE)
    ELSE verify_guarded(data, signature)

\* Before the first event.
NoEvent ==
    [kind |-> "none", op |-> "", raw |-> None, signature |-> None, status |-> 0,
     body |-> [key |-> "", text |-> ""], parsed |-> FALSE, enqueued |-> FALSE,
     payload |-> [nodoc |-> TRUE], outcome |-> ""]

----------------------------------------------------------------------------
(* The inputs of direct calls of verify_webhook *)

\* What the vendor computes: the base64 text of the digest, as a str.
Sign(key, body) == Str(b64encode(HmacSha256(key, body)))

\* "k1", "k2"
Key1 == <<107, 49>>
Key2 == <<107, 50>>
Keys == {Key1, Key2}

\* WEBHOOK_SECRET is os.getenv('WEBHOOK_SECRET'): unset, empty or a key.
Secrets == {None, Str(<<>>)} \cup {Str(k) : k \in Keys}

RECURSIVE SeqsUpTo(_, _)
SeqsUpTo(S, n) ==
    IF n = 0 THEN {<<>>}
    ELSE LET shorter == SeqsUpTo(S, n - 1)
         IN  shorter \cup {Append(s, x) : s \in {t \in shorter : Len(t) = n - 1}, x \in S}

Bodies == SeqsUpTo(0..MaxByte, MaxBodyLen)

\* The raw body handed to verify_webhook: bytes, and the malformed cases None
\* and a str.
VerifyData == {Bytes(b) : b \in Bodies} \cup {None, Str(<<123, 125>>)}

\* s with its first character replaced by another one of the alphabet.
FlipFirst(s) == [s EXCEPT ![1] = IF s[1] = 65 THEN 66 ELSE 65]

\* The signature header: absent, empty, the signature of some body under some
\* key, such a signature cut short, lengthened or changed in one character,
\* and a signature of the wrong Python type.
VerifySignatures ==
    {None, Str(<<>>), Bytes(<<>>)}
    \cup {Sign(k, b) : k \in Keys, b \in Bodies}
    \cup {Str(SubSeq(Sign(k, b).v, 1, Len(Sign(k, b).v) - 1)) : k \in Keys, b \in Bodies}
    \cup {Str(Append(Sign(k, b).v, B64Pad)) : k \in Keys, b \in Bodies}
    \cup {Str(FlipFirst(Sign(k, b).v)) : k \in Keys, b \in Bodies}
    \cup {Bytes(Sign(k, b).v) : k \in Keys, b \in {<<>>}}

\* The pending call: its arguments are drawn, its outcome is not computed yet.
PendingCall(data, signature) ==
    [called |-> FALSE, data |-> data, signature |-> signature,
     out |-> Outcome(FALSE, FALSE, FALSE, FALSE)]

\* The call verify_webhook(data, signature) of the pending arguments.
VerifyWebhookCall ==
    /\ ~vcall.called
    /\ vcall' = [vcall EXCEPT !.called = TRUE,
                              !.out = verify_webhook(vcall.data, vcall.signature)]
    /\ UNCHANGED <<WEBHOOK_SECRET, store, session, workers, queue, last>>

InitVerify ==
    /\ WEBHOOK_SECRET \in Secrets
    /\ vcall \in {PendingCall(d, s) : d \in VerifyData, s \in VerifySignatures}
    /\ shops = {} /\ product_sync = {} /\ order_sync = {} /\ webhook_logs = {}
    /\ product_variants = {}
    /\ order_line_items = {}
    /\ inventory_levels = {}
    /\ session = NoSession
    /\ workers = [w \in Workers |-> Idle]
    /\ queue = <<>>
    /\ last = NoEvent

NextVerify == VerifyWebhookCall

SpecVerify == InitVerify /\ [][NextVerify]_vars

----------------------------------------------------------------------------
(* JSON payloads *)

DomA == "a.myshopify.com"
DomB == "b.myshopify.com"

\* A parsed JSON object is a record of the keys it has; a parsed JSON value
\* that is no object (a list, a number, null) is NonDict.
NonDict == [nondict |-> TRUE]
NoDoc == [nodoc |-> TRUE]
IsDict(d) == "nondict" \notin DOMAIN d
Has(d, k) == k \in DOMAIN d
\* dict.get(k, default)
Get(d, k, default) == IF k \in DOMAIN d THEN d[k] ELSE default

\* The documents the vendor sends: the product of the spec's scenario (a
\* product payload carries no shop_domain), product payloads that name their
\* shop, a compliance payload, an order payload and a JSON list.
ProductDoc == [id |-> 555, title |-> "Widget", handle |-> "widget"]
ProductDocA ==
    [id |-> 555, title |-> "Widget", handle |-> "widget", shop_domain |-> DomA]
ProductDocA2 ==
    [id |-> 555, title |-> "Widget v2", handle |-> "widget-v2", status |-> "draft",
     shop_domain |-> DomA]
ComplianceDoc == [shop_id |-> 954889, shop_domain |-> DomA]
OrderDoc ==
    [id |-> 1001, order_number |-> "1001", financial_status |-> "paid",
     total_price |-> "29.99", currency |-> "USD", shop_domain |-> DomA]

JsonDocs == <<ProductDoc, ProductDocA, ProductDocA2, ComplianceDoc, OrderDoc, NonDict>>

\* The bytes of a document on the wire, abbreviated: '{', the number of the
\* document, '}'.
json_dumps(doc) ==
    <<123, CHOOSE i \in 1..Len(JsonDocs) : JsonDocs[i] = doc, 125>>

\* Bodies that are no JSON ("no") and no UTF-8 (0xFF).
GarbageBody == <<110, 111>>
BadUtf8Body == <<255>>

\* json.loads(raw_data.decode('utf-8')): decode raises UnicodeDecodeError on a
\* byte that is no UTF-8, loads raises JSONDecodeError on bytes that are no
\* JSON document; both are caught at app.py:552.
json_loads(raw) ==
    IF \E i \in 1..Len(raw) : raw[i] >= 128
    THEN [raised |-> TRUE, value |-> NoDoc]
    ELSE IF /\ Len(raw) = 3
            /\ raw[1] = 123
            /\ raw[3] = 125
            /\ raw[2] \in 1..Len(JsonDocs)
    THEN [raised |-> FALSE, value |-> JsonDocs[raw[2]]]
    ELSE [raised |-> TRUE, value |-> NoDoc]

\* float(x) of a price text: the amount in cents, or ValueError.
float(x) ==
    IF x = "29.99" THEN [raised |-> FALSE, value |-> 2999]
    ELSE IF x = "0" THEN [raised |-> FALSE, value |-> 0]
    ELSE [raised |-> TRUE, value |-> 0]

----------------------------------------------------------------------------
(* The store, models.py *)

\* The largest number of tasks the broker holds.
MaxQueue == 1

\* A primary key: one more than the largest in the table.
RECURSIVE MaxId(_)
MaxId(rows) ==
    IF rows = {} THEN 0
    ELSE LET r == CHOOSE x \in rows : TRUE
             m == MaxId(rows \ {r})
         IN  IF r.id > m THEN r.id ELSE m
NextId(rows) == MaxId(rows) + 1

\* Query.first(): the matching row with the smallest primary key.
First(rows) == CHOOSE r \in rows : \A q \in rows : r.id <= q.id

ShopA == [id |-> 1, shop_domain |-> DomA, access_token |-> "token-a"]
ShopB == [id |-> 2, shop_domain |-> DomB, access_token |-> "token-b"]

\* Shop.query.filter_by(shop_domain=...)
ShopsByDomain(domain) == {r \in shops : r.shop_domain = domain}

\* models.py:149-164: the columns of WebhookLog.  The declarative constructor
\* raises TypeError for a keyword that is no attribute of the class.
WebhookLogColumns ==
    {"id", "shop_id", "webhook_type", "resource_id", "status", "error_message",
     "processed_at", "retry_count"}
ConstructorRaises(kwargs, columns) == ~(kwargs \subseteq columns)

\* app.py:907-913, 988-994, 1059-1065: the keywords the compliance tasks give
\* to WebhookLog(...).
ComplianceLogKwargs == {"shop_id", "webhook_type", "resource_id", "status", "payload"}

----------------------------------------------------------------------------
(* The worker tasks of app.py.  A task runs with an application context and *)
(* a database session of its own: what it did not commit is discarded when  *)
(* it ends.                                                                 *)

\* The store a task leaves committed, and how the task ended: "committed",
\* "returned" (an early return), "error" (an exception caught and logged by
\* the task) or "raised" (an exception that left the task).
TaskResult(outcome, s, p, o, w) ==
    [outcome |-> outcome, shops |-> s, product_sync |-> p, order_sync |-> o,
     webhook_logs |-> w]
Untouched(outcome) ==
    TaskResult(outcome, shops, product_sync, order_sync, webhook_logs)

\* The same query without its shop_id filter.
ProductsOf_any_shop(table, shop_id, product_id) ==
    {r \in table : r.product_id = product_id}

\* ProductSync.query.filter_by(shop_id=..., product_id=...)
ProductsOf(table, shop_id, product_id) ==
    {r \in table : r.shop_id = shop_id /\ r.product_id = product_id}

\* OrderSync.query.filter_by(shop_id=..., order_id=...)
OrdersOf(table, shop_id, order_id) ==
    {r \in table : r.shop_id = shop_id /\ r.order_id = order_id}

\* The vendor's updated_at texts of the payloads, oldest first (ISO 8601 texts
\* of one zone compare as their instants do).
Timestamps == <<"2024-01-01T00:00:00Z", "2024-02-01T00:00:00Z">>
Earlier(a, b) ==
    \E i, j \in 1..Len(Timestamps) : i < j /\ Timestamps[i] = a /\ Timestamps[j] = b

\* An upsert that would resolve conflicts by timestamp: the row keeps the
\* updated_at of the payload it was written from, and a payload older than
\* that is dropped.
webhook_upsert_newest_wins(table, shop_id, product_data) ==
    LET existing == ProductsOf(table, shop_id, product_data.id)
        updated_at == Get(product_data, "updated_at", "")
    IN  IF existing # {}
        THEN LET e == First(existing)
             IN  IF Has(e, "shopify_updated_at")
                    /\ Earlier(updated_at, e.shopify_updated_at)
                 THEN table
                 ELSE (table \ {e}) \cup
                          {[id |-> e.id, shop_id |-> e.shop_id,
                            product_id |-> e.product_id,
                            title |-> product_data.title,
                            handle |-> product_data.handle, status |-> e.status,
                            shopify_updated_at |-> updated_at]}
        ELSE table \cup {[id |-> NextId(table), shop_id |-> shop_id,
                          product_id |-> product_data.id,
                          title |-> product_data.title,
                          handle |-> product_data.handle, status |-> "active",
                          shopify_updated_at |-> updated_at]}

\* app.py:805-822: update the title and the handle of the existing row, or
\* add a row; status is left to the column default 'active' (models.py:41).
webhook_upsert(table, shop_id, product_data) ==
    LET existing == ProductsOf(table, shop_id, product_data.id)
    IN  IF existing # {}
        THEN LET e == First(existing)
             IN  (table \ {e}) \cup {[e EXCEPT !.title = product_data.title,
                                               !.handle = product_data.handle]}
        ELSE table \cup {[id |-> NextId(table), shop_id |-> shop_id,
                          product_id |-> product_data.id,
                          title |-> product_data.title,
                          handle |-> product_data.handle, status |-> "active"]}

\* app.py:793-828.  product_data.get raises AttributeError when the payload is
\* no dict, product_data['id'] / ['title'] / ['handle'] raise KeyError when the
\* key is missing; `except Exception` logs and ends the task.
process_product_webhook(product_data) ==
    IF ~IsDict(product_data) THEN Untouched("error")
    ELSE IF ~Has(product_data, "shop_domain") THEN Untouched("returned")
    ELSE IF ShopsByDomain(product_data.shop_domain) = {} THEN Untouched("returned")
    ELSE IF ~(Has(product_data, "id") /\ Has(product_data, "title")
              /\ Has(product_data, "handle"))
    THEN Untouched("error")
    ELSE TaskResult("committed", shops,
                    webhook_upsert(product_sync,
                                   First(ShopsByDomain(product_data.shop_domain)).id,
                                   product_data),
                    order_sync, webhook_logs)

\* app.py:842-862: update status, total_price and currency of the existing
\* row, or add a row.
order_webhook_upsert(table, shop_id, order_data) ==
    LET existing == OrdersOf(table, shop_id, order_data.id)
    IN  IF existing # {}
        THEN LET e == First(existing)
             IN  (table \ {e}) \cup
                     {[e EXCEPT !.status = order_data.financial_status,
                                !.total_price = float(order_data.total_price).value,
                                !.currency = order_data.currency]}
        ELSE table \cup {[id |-> NextId(table), shop_id |-> shop_id,
                          order_id |-> order_data.id,
                          order_number |-> order_data.order_number,
                          status |-> order_data.financial_status,
                          total_price |-> float(order_data.total_price).value,
                          currency |-> order_data.currency]}

\* The keys app.py:848-860 reads with order_data[...]: the update reads three,
\* the insert reads order_number too.
OrderKeysRead(existing) ==
    IF existing # {} THEN {"financial_status", "total_price", "currency"}
    ELSE {"order_number", "financial_status", "total_price", "currency"}

\* app.py:830-868.
process_order_webhook(order_data) ==
    IF ~IsDict(order_data) THEN Untouched("error")
    ELSE IF ~Has(order_data, "shop_domain") THEN Untouched("returned")
    ELSE IF ShopsByDomain(order_data.shop_domain) = {} THEN Untouched("returned")
    ELSE IF ~Has(order_data, "id") THEN Untouched("error")
    ELSE LET shop_record == First(ShopsByDomain(order_data.shop_domain))
             existing == OrdersOf(order_sync, shop_record.id, order_data.id)
         IN  IF ~(OrderKeysRead(existing) \subseteq DOMAIN order_data)
             THEN Untouched("error")
             ELSE IF float(order_data.total_price).raised THEN Untouched("error")
             ELSE TaskResult("committed", shops, product_sync,
                             order_webhook_upsert(order_sync, shop_record.id, order_data),
                             webhook_logs)

\* The id column of the shop a compliance payload names, 0 (NULL) when the
\* payload names none or no Shop row has the domain: app.py:916-920.
ComplianceShopId(webhook_data) ==
    IF Has(webhook_data, "shop_domain") /\ ShopsByDomain(webhook_data.shop_domain) # {}
    THEN First(ShopsByDomain(webhook_data.shop_domain)).id
    ELSE 0

\* app.py:906-944 and 987-1026, past the constructor: the audit row is added
\* and committed as 'processing', then committed as 'completed'.  shop_id is
\* NOT NULL (models.py:155): with no Shop row the first commit raises, and so
\* does the commit of the handler, which leaves the task.
compliance_audit(webhook_data, webhook_type) ==
    IF ComplianceShopId(webhook_data) = 0 THEN Untouched("raised")
    ELSE TaskResult("committed", shops, product_sync, order_sync,
                    webhook_logs \cup
                        {[id |-> NextId(webhook_logs),
                          shop_id |-> ComplianceShopId(webhook_data),
                          webhook_type |-> webhook_type, status |-> "completed"]})

\* app.py:895-952.  webhook_data.get raises AttributeError when the payload is
\* no dict; WebhookLog(..., payload=...) raises TypeError, WebhookLog having no
\* such column.  Either way webhook_log is unbound in the handler
\* (app.py:950), which only logs.
process_customer_data_request(webhook_data) ==
    IF ~IsDict(webhook_data) THEN Untouched("error")
    ELSE IF ConstructorRaises(ComplianceLogKwargs, WebhookLogColumns)
    THEN Untouched("error")
    ELSE compliance_audit(webhook_data, "customers/data_request")

\* A redaction that would carry out what the comment at app.py:1006-1023
\* sketches: the orders listed in orders_to_redact are deleted.
process_customer_redact_deleting_orders(webhook_data) ==
    IF ~IsDict(webhook_data) THEN Untouched("error")
    ELSE LET orders_to_redact == Get(webhook_data, "orders_to_redact", <<>>)
         IN  TaskResult("committed", shops, product_sync,
                        {o \in order_sync :
                            \A i \in 1..Len(orders_to_redact) :
                                orders_to_redact[i] # o.order_id},
                        webhook_logs)

\* app.py:977-1034.
process_customer_redact(webhook_data) ==
    IF ~IsDict(webhook_data) THEN Untouched("error")
    ELSE IF ConstructorRaises(ComplianceLogKwargs, WebhookLogColumns)
    THEN Untouched("error")
    ELSE compliance_audit(webhook_data, "customers/redact")

\* app.py:1077-1121, past the constructor, for a shop that has a row: the
\* orders and the products of the shop are deleted in the session, then
\* OrderLineItem.query.filter_by(shop_id=...) raises (OrderLineItem has no
\* shop_id, models.py:110-127) and the handler commits the session with the
\* audit row 'failed'.
shop_redact_deletions(webhook_data) ==
    LET sid == ComplianceShopId(webhook_data)
    IN  TaskResult("error", shops,
                   {r \in product_sync : r.shop_id # sid},
                   {r \in order_sync : r.shop_id # sid},
                   webhook_logs \cup
                       {[id |-> NextId(webhook_logs), shop_id |-> sid,
                         webhook_type |-> "shop/redact", status |-> "failed"]})

\* A shop redact whose audit row could be built: the deletions of
\* app.py:1077-1113 run on the shop's rows.
process_shop_redact_log_accepted(webhook_data) ==
    IF ~IsDict(webhook_data) THEN Untouched("error")
    ELSE IF ComplianceShopId(webhook_data) = 0 THEN Untouched("raised")
    ELSE shop_redact_deletions(webhook_data)

\* app.py:1052-1121.
process_shop_redact(webhook_data) ==
    IF ~IsDict(webhook_data) THEN Untouched("error")
    ELSE IF ConstructorRaises(ComplianceLogKwargs, WebhookLogColumns)
    THEN Untouched("error")
    ELSE IF ComplianceShopId(webhook_data) = 0 THEN Untouched("raised")
    ELSE shop_redact_deletions(webhook_data)

----------------------------------------------------------------------------
(* The webhook endpoints, app.py:534-721 *)

\* An event: an HTTP request (kind "http": the endpoint op, the raw body, the
\* signature header, the response status and body, whether json.loads was
\* called, whether .delay() returned) or a task run by a worker (kind "task":
\* the task op, its payload, how it ended).
Event(kind, op, raw, signature, status, body, parsed, enqueued, payload, outcome) ==
    [kind |-> kind, op |-> op, raw |-> raw, signature |-> signature,
     status |-> status, body |-> body, parsed |-> parsed, enqueued |-> enqueued,
     payload |-> payload, outcome |-> outcome]

\* jsonify({key: text})
Json(key, text) == [key |-> key, text |-> text]

\* What a handler answers and sends to the broker.
Reply(status, body, parsed, enqueued, sent) ==
    [status |-> status, body |-> body, parsed |-> parsed, enqueued |-> enqueued,
     sent |-> sent]

\* Mutant: the task is queued before the signature is looked at.
WebhookResponse_queue_unverified(task, raw_data, signature, broker_up) ==
    LET parsed == json_loads(raw_data.v)
        message == [task |-> task, payload |-> parsed.value]
    IN  IF ~verify_webhook(raw_data, signature).ret
        THEN Reply(401, Json("error", "Invalid signature"), ~parsed.raised,
                   ~parsed.raised, IF parsed.raised THEN <<>> ELSE <<message>>)
        ELSE IF parsed.raised
        THEN Reply(400, Json("error", "Invalid JSON"), TRUE, FALSE, <<>>)
        ELSE IF ~broker_up
        THEN Reply(200, Json("status", "queued with errors"), TRUE, FALSE, <<>>)
        ELSE IF ~IsDict(parsed.value)
        THEN Reply(200, Json("status", "queued with errors"), TRUE, TRUE, <<message>>)
        ELSE Reply(200, Json("status", "success"), TRUE, TRUE, <<message>>)

\* Mutant: UnicodeDecodeError is not among the exceptions caught, the request
\* ends in the framework's 500.
WebhookResponse_decode_uncaught(task, raw_data, signature, broker_up) ==
    LET parsed == json_loads(raw_data.v)
        message == [task |-> task, payload |-> parsed.value]
    IN  IF ~verify_webhook(raw_data, signature).ret
        THEN Reply(401, Json("error", "Invalid signature"), FALSE, FALSE, <<>>)
        ELSE IF parsed.raised /\ (\E i \in 1..Len(raw_data.v) : raw_data.v[i] >= 128)
        THEN Reply(500, Json("error", "Internal Server Error"), TRUE, FALSE, <<>>)
        ELSE IF parsed.raised
        THEN Reply(400, Json("error", "Invalid JSON"), TRUE, FALSE, <<>>)
        ELSE IF ~broker_up
        THEN Reply(200, Json("status", "queued with errors"), TRUE, FALSE, <<>>)
        ELSE IF ~IsDict(parsed.value)
        THEN Reply(200, Json("status", "queued with errors"), TRUE, TRUE, <<message>>)
        ELSE Reply(200, Json("status", "success"), TRUE, TRUE, <<message>>)

\* The body the five handlers share (app.py:540-567 and its four copies):
\* verify, parse, queue, answer.  task.delay(...) raises when the broker is
\* not reachable.  The logging statement that follows .delay() inside the same
\* try block calls .get on the parsed body, which raises AttributeError when
\* the body is no JSON object: the task is queued and the answer is 'queued
\* with errors'.
WebhookResponse(task, raw_data, signature, broker_up) ==
    LET parsed == json_loads(raw_data.v)
        message == [task |-> task, payload |-> parsed.value]
    IN  IF ~verify_webhook(raw_data, signature).ret
        THEN Reply(401, Json("error", "Invalid signature"), FALSE, FALSE, <<>>)
        ELSE IF parsed.raised
        THEN Reply(400, Json("error", "Invalid JSON"), TRUE, FALSE, <<>>)
        ELSE IF ~broker_up
        THEN Reply(200, Json("status", "queued with errors"), TRUE, FALSE, <<>>)
        ELSE IF ~IsDict(parsed.value)
        THEN Reply(200, Json("status", "queued with errors"), TRUE, TRUE, <<message>>)
        ELSE Reply(200, Json("status", "success"), TRUE, TRUE, <<message>>)

\* The signature headers a request with the body raw_data comes with: none,
\* the vendor's under the key k1, and that one changed in one character.
RequestSignatures(raw_data) ==
    {None, Sign(Key1, raw_data.v), Str(FlipFirst(Sign(Key1, raw_data.v).v))}

\* The requests with the bodies of docs, with the bodies that are no JSON.
RequestsOf(docs, malformed) ==
    UNION {{[raw_data |-> raw_data, signature |-> signature] :
                signature \in RequestSignatures(raw_data)} :
           raw_data \in {Bytes(json_dumps(doc)) : doc \in docs}
                        \cup {Bytes(b) : b \in malformed}}

\* The requests each endpoint receives.
ProductRequests ==
    RequestsOf({ProductDoc, ProductDocA, ProductDocA2, NonDict},
               {GarbageBody, BadUtf8Body})
OrderRequests == RequestsOf({OrderDoc, NonDict}, {GarbageBody})
ComplianceRequests == RequestsOf({ComplianceDoc}, {GarbageBody})

\* One request to the endpoint op, whose handler queues task.
HandleWebhook(op, task, requests) ==
    \E request \in requests, broker_up \in BOOLEAN :
        \E r \in {WebhookResponse(task, request.raw_data, request.signature, broker_up)} :
            /\ Len(queue) + Len(r.sent) <= MaxQueue
            /\ queue' = queue \o r.sent
            /\ last' = Event("http", op, request.raw_data, request.signature,
                             r.status, r.body, r.parsed, r.enqueued, NoDoc, "answered")
            /\ UNCHANGED <<WEBHOOK_SECRET, vcall, store, session, workers>>

\* app.py:534-567
webhook_products_create ==
    HandleWebhook("/webhooks/products/create", "process_product_webhook",
                  ProductRequests)
\* app.py:569-602
webhook_orders_create ==
    HandleWebhook("/webhooks/orders/create", "process_order_webhook", OrderRequests)
\* app.py:605-642
webhook_customers_data_request ==
    HandleWebhook("/webhooks/customers/data_request", "process_customer_data_request",
                  ComplianceRequests)
\* app.py:644-682
webhook_customers_redact ==
    HandleWebhook("/webhooks/customers/redact", "process_customer_redact",
                  ComplianceRequests)
\* app.py:684-721
webhook_shop_redact ==
    HandleWebhook("/webhooks/shop/redact", "process_shop_redact", ComplianceRequests)

WebhookEndpoints ==
    {"/webhooks/products/create", "/webhooks/orders/create",
     "/webhooks/customers/data_request", "/webhooks/customers/redact",
     "/webhooks/shop/redact"}

----------------------------------------------------------------------------
(* The worker: it takes the oldest task of the queue and runs it *)

RunTask(task, result) ==
    /\ queue # <<>>
    /\ Head(queue).task = task
    /\ \E r \in {result} :
           /\ queue' = Tail(queue)
           /\ shops' = r.shops
           /\ product_sync' = r.product_sync
           /\ order_sync' = r.order_sync
           /\ webhook_logs' = r.webhook_logs
           /\ last' = Event("task", task, None, None, 0, Json("", ""), FALSE, FALSE,
                            Head(queue).payload, r.outcome)
    /\ UNCHANGED <<WEBHOOK_SECRET, vcall, rest>>

\* The payload of the oldest task (NoDoc when the queue is empty).
HeadPayload == IF queue = <<>> THEN NoDoc ELSE Head(queue).payload

run_process_product_webhook ==
    RunTask("process_product_webhook", process_product_webhook(HeadPayload))
run_process_order_webhook ==
    RunTask("process_order_webhook", process_order_webhook(HeadPayload))
run_process_customer_data_request ==
    RunTask("process_customer_data_request", process_customer_data_request(HeadPayload))
run_process_customer_redact ==
    RunTask("process_customer_redact", process_customer_redact(HeadPayload))
run_process_shop_redact ==
    RunTask("process_shop_redact", process_shop_redact(HeadPayload))

\* The deployments: with and without WEBHOOK_SECRET, before and after the
\* shop a.myshopify.com installed the app.
Init ==
    /\ WEBHOOK_SECRET \in {None, Str(Key1)}
    /\ vcall = PendingCall(None, None)
    /\ shops \in {{}, {ShopA}}
    /\ product_sync = {}
    /\ order_sync = {}
    /\ webhook_logs = {}
    /\ product_variants = {}
    /\ order_line_items = {}
    /\ inventory_levels = {}
    /\ session = NoSession
    /\ workers = [w \in Workers |-> Idle]
    /\ queue = <<>>
    /\ last = NoEvent

Next ==
    \/ webhook_products_create
    \/ webhook_orders_create
    \/ webhook_customers_data_request
    \/ webhook_customers_redact
    \/ webhook_shop_redact
    \/ run_process_product_webhook
    \/ run_process_order_webhook
    \/ run_process_customer_data_request
    \/ run_process_customer_redact
    \/ run_process_shop_redact

Spec == Init /\ [][Next]_vars

----------------------------------------------------------------------------
(* sync_products_task, tasks.py:14-137 *)

\* The largest number of products of a fetched page.
MaxBatch == 2

\* Products as the vendor's API lists them: with a status, with variants, and
\* one whose variant lacks its id.
VariantDoc == [id |-> 9001, title |-> "Default", price |-> "29.99"]
ProductDocV ==
    [id |-> 555, title |-> "Widget", handle |-> "widget", status |-> "active",
     shop_domain |-> DomA, variants |-> <<VariantDoc>>]
ProductDocBadVariant ==
    [id |-> 556, title |-> "Gadget", handle |-> "gadget", status |-> "active",
     variants |-> <<[title |-> "No id"]>>]

\* The session of the running task: the rows as its queries see them (the
\* committed rows with the task's pending changes, flushed before every
\* query), the count of products synced, and whether an exception left the
\* loop.
Session(products, variants, synced_count, aborted) ==
    [products |-> products, variants |-> variants, synced_count |-> synced_count,
     aborted |-> aborted]

\* ProductVariant.query.filter_by(product_sync_id=..., variant_id=...)
VariantsOf(table, product_sync_id, variant_id) ==
    {r \in table : r.product_sync_id = product_sync_id /\ r.variant_id = variant_id}

\* tasks.py:76-108, one variant.  The assignments to an existing row happen
\* in the order of the code, a KeyError stops them; the keywords of the
\* constructor are all evaluated before a row is made.
variant_upsert(variants, product_sync_id, variant_data) ==
    IF ~Has(variant_data, "id") THEN [variants |-> variants, raised |-> TRUE]
    ELSE LET existing == VariantsOf(variants, product_sync_id, variant_data.id)
         IN  IF existing # {}
             THEN LET e == First(existing)
                  IN  IF ~Has(variant_data, "title")
                      THEN [variants |-> variants, raised |-> TRUE]
                      ELSE IF ~Has(variant_data, "price")
                      THEN [variants |-> (variants \ {e}) \cup
                                         {[e EXCEPT !.title = variant_data.title]},
                            raised |-> TRUE]
                      ELSE [variants |-> (variants \ {e}) \cup
                                         {[e EXCEPT !.title = variant_data.title,
                                                    !.price = variant_data.price]},
                            raised |-> FALSE]
             ELSE IF ~(Has(variant_data, "title") /\ Has(variant_data, "price"))
             THEN [variants |-> variants, raised |-> TRUE]
             ELSE [variants |-> variants \cup
                                {[id |-> NextId(variants),
                                  product_sync_id |-> product_sync_id,
                                  variant_id |-> variant_data.id,
                                  title |-> variant_data.title,
                                  price |-> variant_data.price]},
                   raised |-> FALSE]

\* tasks.py:75, the loop over product_data.get('variants', []).
RECURSIVE sync_variants(_, _, _)
sync_variants(variants, product_sync_id, variants_data) ==
    IF variants_data = <<>> THEN [variants |-> variants, raised |-> FALSE]
    ELSE LET r == variant_upsert(variants, product_sync_id, Head(variants_data))
         IN  IF r.raised THEN r
             ELSE sync_variants(r.variants, product_sync_id, Tail(variants_data))

\* tasks.py:40-72, the product row of a payload that has an id.
product_upsert(products, shop_id, product_data) ==
    LET existing == ProductsOf(products, shop_id, product_data.id)
    IN  IF existing # {}
        THEN LET e == First(existing)
             IN  IF ~Has(product_data, "title")
                 THEN [products |-> products, raised |-> TRUE, row_id |-> e.id]
                 ELSE IF ~Has(product_data, "handle")
                 THEN [products |-> (products \ {e}) \cup
                                    {[e EXCEPT !.title = product_data.title]},
                       raised |-> TRUE, row_id |-> e.id]
                 ELSE IF ~Has(product_data, "status")
                 THEN [products |-> (products \ {e}) \cup
                                    {[e EXCEPT !.title = product_data.title,
                                               !.handle = product_data.handle]},
                       raised |-> TRUE, row_id |-> e.id]
                 ELSE [products |-> (products \ {e}) \cup
                                    {[e EXCEPT !.title = product_data.title,
                                               !.handle = product_data.handle,
                                               !.status = product_data.status]},
                       raised |-> FALSE, row_id |-> e.id]
        ELSE IF ~(Has(product_data, "title") /\ Has(product_data, "handle")
                  /\ Has(product_data, "status"))
        THEN [products |-> products, raised |-> TRUE, row_id |-> 0]
        ELSE [products |-> products \cup
                           {[id |-> NextId(products), shop_id |-> shop_id,
                             product_id |-> product_data.id,
                             title |-> product_data.title,
                             handle |-> product_data.handle,
                             status |-> product_data.status]},
              raised |-> FALSE, row_id |-> NextId(products)]

\* A turn of the loop that would replace the variants of the product by those
\* of the payload: the rows of the product whose variant id the payload does
\* not carry are deleted before the others are upserted.
sync_product_replacing_variants(sess, shop_id, product_data) ==
    IF ~Has(product_data, "id") THEN [sess EXCEPT !.aborted = TRUE]
    ELSE LET p == product_upsert(sess.products, shop_id, product_data)
         IN  IF p.raised THEN [sess EXCEPT !.products = p.products]
             ELSE LET variants_data == Get(product_data, "variants", <<>>)
                      kept == {r \in sess.variants :
                                  r.product_sync_id = p.row_id =>
                                      \E j \in 1..Len(variants_data) :
                                          /\ Has(variants_data[j], "id")
                                          /\ variants_data[j].id = r.variant_id}
                      v == sync_variants(kept, p.row_id, variants_data)
                  IN  Session(p.products, v.variants,
                              IF v.raised THEN sess.synced_count
                              ELSE sess.synced_count + 1,
                              FALSE)

\* tasks.py:38-127, one turn of the loop.  `except Exception` at line 125
\* logs product_data['id'] and continues: what the turn changed before the
\* exception stays in the session; a payload without id raises again inside
\* the handler, which ends the loop.
sync_product(sess, shop_id, product_data) ==
    IF ~Has(product_data, "id") THEN [sess EXCEPT !.aborted = TRUE]
    ELSE LET p == product_upsert(sess.products, shop_id, product_data)
         IN  IF p.raised THEN [sess EXCEPT !.products = p.products]
             ELSE LET v == sync_variants(sess.variants, p.row_id,
                                         Get(product_data, "variants", <<>>))
                  IN  Session(p.products, v.variants,
                              IF v.raised THEN sess.synced_count
                              ELSE sess.synced_count + 1,
                              FALSE)

RECURSIVE sync_products(_, _, _)
sync_products(sess, shop_id, products) ==
    IF products = <<>> \/ sess.aborted THEN sess
    ELSE sync_products(sync_product(sess, shop_id, Head(products)), shop_id,
                       Tail(products))

SyncResult(outcome, products, variants, synced_count) ==
    [outcome |-> outcome, product_sync |-> products, product_variants |-> variants,
     synced_count |-> synced_count]

\* tasks.py:14-137.  connected is the answer of client.test_connection(),
\* products_data the page client.get_products() fetched.  The commit at line
\* 130 writes the session; the handler at line 134 rolls back and re-raises.
sync_products_task(shop_id, connected, products_data) ==
    IF ~(\E shop \in shops : shop.id = shop_id)
    THEN SyncResult("raised", product_sync, product_variants, 0)
    ELSE IF ~connected
    THEN SyncResult("raised", product_sync, product_variants, 0)
    ELSE LET sess == sync_products(Session(product_sync, product_variants, 0, FALSE),
                                   shop_id, products_data)
         IN  IF sess.aborted
             THEN SyncResult("raised", product_sync, product_variants, 0)
             ELSE SyncResult("completed", sess.products, sess.variants,
                             sess.synced_count)

----------------------------------------------------------------------------
(* sync_orders_task, tasks.py:139-270 *)

\* What a Numeric(10, 2) column holds of a price text: the amount in cents.
numeric(x) == float(x).value

LineItemDoc == [id |-> 7001, title |-> "Widget", quantity |-> 2, price |-> "29.99"]
\* Orders as the vendor's API lists them: complete with a line item, without
\* currency, with a line item that lacks its id, without id.
SyncOrderDoc ==
    [id |-> 1001, order_number |-> "1001", status |-> "open",
     total_price |-> "29.99", currency |-> "USD", line_items |-> <<LineItemDoc>>]
SyncOrderDocNoCurrency ==
    [id |-> 1001, order_number |-> "1001", status |-> "cancelled",
     total_price |-> "0"]
SyncOrderDocBadItem ==
    [id |-> 1002, order_number |-> "1002", status |-> "open",
     total_price |-> "0", currency |-> "USD",
     line_items |-> <<[title |-> "No id"]>>]
SyncOrderDocNoId == [order_number |-> "1003", status |-> "open"]

OrderSession(orders, items, synced_count, aborted) ==
    [orders |-> orders, items |-> items, synced_count |-> synced_count,
     aborted |-> aborted]

\* OrderLineItem.query.filter_by(order_sync_id=..., line_item_id=...)
LineItemsOf(table, order_sync_id, line_item_id) ==
    {r \in table : r.order_sync_id = order_sync_id /\ r.line_item_id = line_item_id}

\* tasks.py:211-241, one line item.
line_item_upsert(items, order_sync_id, item_data) ==
    IF ~Has(item_data, "id") THEN [items |-> items, raised |-> TRUE]
    ELSE LET existing == LineItemsOf(items, order_sync_id, item_data.id)
         IN  IF existing # {}
             THEN LET e == First(existing)
                  IN  IF ~Has(item_data, "title")
                      THEN [items |-> items, raised |-> TRUE]
                      ELSE IF ~Has(item_data, "quantity")
                      THEN [items |-> (items \ {e}) \cup
                                      {[e EXCEPT !.title = item_data.title]},
                            raised |-> TRUE]
                      ELSE IF ~Has(item_data, "price")
                      THEN [items |-> (items \ {e}) \cup
                                      {[e EXCEPT !.title = item_data.title,
                                                 !.quantity = item_data.quantity]},
                            raised |-> TRUE]
                      ELSE [items |-> (items \ {e}) \cup
                                      {[e EXCEPT !.title = item_data.title,
                                                 !.quantity = item_data.quantity,
                                                 !.price = numeric(item_data.price)]},
                            raised |-> FALSE]
             ELSE IF ~(Has(item_data, "title") /\ Has(item_data, "quantity")
                       /\ Has(item_data, "price"))
             THEN [items |-> items, raised |-> TRUE]
             ELSE [items |-> items \cup
                             {[id |-> NextId(items), order_sync_id |-> order_sync_id,
                               line_item_id |-> item_data.id,
                               title |-> item_data.title,
                               quantity |-> item_data.quantity,
                               price |-> numeric(item_data.price)]},
                   raised |-> FALSE]

\* tasks.py:210, the loop over order_data.get('line_items', []).
RECURSIVE sync_line_items(_, _, _)
sync_line_items(items, order_sync_id, items_data) ==
    IF items_data = <<>> THEN [items |-> items, raised |-> FALSE]
    ELSE LET r == line_item_upsert(items, order_sync_id, Head(items_data))
         IN  IF r.raised THEN r
             ELSE sync_line_items(r.items, order_sync_id, Tail(items_data))

\* tasks.py:165-207, the order row of a payload that has an id.
order_upsert(orders, shop_id, order_data) ==
    LET existing == OrdersOf(orders, shop_id, order_data.id)
    IN  IF existing # {}
        THEN LET e == First(existing)
             IN  IF ~Has(order_data, "status")
                 THEN [orders |-> orders, raised |-> TRUE, row_id |-> e.id]
                 ELSE IF ~Has(order_data, "total_price")
                 THEN [orders |-> (orders \ {e}) \cup
                                  {[e EXCEPT !.status = order_data.status]},
                       raised |-> TRUE, row_id |-> e.id]
                 ELSE IF ~Has(order_data, "currency")
                 THEN [orders |-> (orders \ {e}) \cup
                                  {[e EXCEPT !.status = order_data.status,
                                             !.total_price =
                                                 numeric(order_data.total_price)]},
                       raised |-> TRUE, row_id |-> e.id]
                 ELSE [orders |-> (orders \ {e}) \cup
                                  {[e EXCEPT !.status = order_data.status,
                                             !.total_price =
                                                 numeric(order_data.total_price),
                                             !.currency = order_data.currency]},
                       raised |-> FALSE, row_id |-> e.id]
        ELSE IF ~({"order_number", "status", "total_price", "currency"}
                      \subseteq DOMAIN order_data)
        THEN [orders |-> orders, raised |-> TRUE, row_id |-> 0]
        ELSE [orders |-> orders \cup
                         {[id |-> NextId(orders), shop_id |-> shop_id,
                           order_id |-> order_data.id,
                           order_number |-> order_data.order_number,
                           status |-> order_data.status,
                           total_price |-> numeric(order_data.total_price),
                           currency |-> order_data.currency]},
              raised |-> FALSE, row_id |-> NextId(orders)]

\* tasks.py:163-257, one turn of the loop; the handler at line 255 logs
\* order_data['id'].
sync_order(sess, shop_id, order_data) ==
    IF ~Has(order_data, "id") THEN [sess EXCEPT !.aborted = TRUE]
    ELSE LET o == order_upsert(sess.orders, shop_id, order_data)
         IN  IF o.raised THEN [sess EXCEPT !.orders = o.orders]
             ELSE LET i == sync_line_items(sess.items, o.row_id,
                                           Get(order_data, "line_items", <<>>))
                  IN  OrderSession(o.orders, i.items,
                                   IF i.raised THEN sess.synced_count
                                   ELSE sess.synced_count + 1,
                                   FALSE)

RECURSIVE sync_orders(_, _, _)
sync_orders(sess, shop_id, orders) ==
    IF orders = <<>> \/ sess.aborted THEN sess
    ELSE sync_orders(sync_order(sess, shop_id, Head(orders)), shop_id, Tail(orders))

\* What a sync task returns ('status', 'synced_count', 'total_...') and the
\* rows it leaves committed in its two tables.
BatchResult(outcome, rows, children, synced_count, total) ==
    [outcome |-> outcome, rows |-> rows, children |-> children,
     synced_count |-> synced_count, total |-> total]

\* tasks.py:139-270
sync_orders_task(shop_id, connected, orders_data) ==
    IF ~(\E shop \in shops : shop.id = shop_id) \/ ~connected
    THEN BatchResult("raised", order_sync, order_line_items, 0, 0)
    ELSE LET sess == sync_orders(OrderSession(order_sync, order_line_items, 0, FALSE),
                                 shop_id, orders_data)
         IN  IF sess.aborted
             THEN BatchResult("raised", order_sync, order_line_items, 0, 0)
             ELSE BatchResult("completed", sess.orders, sess.items,
                              sess.synced_count, Len(orders_data))

----------------------------------------------------------------------------
(* sync_inventory_task, tasks.py:272-339 *)

LevelDoc == [inventory_item_id |-> 801, location_id |-> 901, available |-> 5]
LevelDoc2 == [inventory_item_id |-> 801, location_id |-> 901, available |-> 0]
LevelDocNoAvailable == [inventory_item_id |-> 801, location_id |-> 901]

\* InventoryLevel.query.filter_by(shop_id=..., inventory_item_id=..., location_id=...)
LevelsOf(table, shop_id, inventory_item_id, location_id) ==
    {r \in table : /\ r.shop_id = shop_id
                   /\ r.inventory_item_id = inventory_item_id
                   /\ r.location_id = location_id}

\* tasks.py:297-324, one turn of the loop: a KeyError is logged and the level
\* skipped.
sync_level(sess, shop_id, level_data) ==
    IF ~({"inventory_item_id", "location_id", "available"} \subseteq DOMAIN level_data)
    THEN sess
    ELSE LET existing == LevelsOf(sess.rows, shop_id, level_data.inventory_item_id,
                                  level_data.location_id)
         IN  [rows |-> IF existing # {}
                       THEN (sess.rows \ {First(existing)}) \cup
                                {[First(existing) EXCEPT
                                      !.available = level_data.available]}
                       ELSE sess.rows \cup
                                {[id |-> NextId(sess.rows), shop_id |-> shop_id,
                                  inventory_item_id |-> level_data.inventory_item_id,
                                  location_id |-> level_data.location_id,
                                  available |-> level_data.available]},
              synced_count |-> sess.synced_count + 1]

RECURSIVE sync_levels(_, _, _)
sync_levels(sess, shop_id, levels) ==
    IF levels = <<>> THEN sess
    ELSE sync_levels(sync_level(sess, shop_id, Head(levels)), shop_id, Tail(levels))

\* tasks.py:272-339
sync_inventory_task(shop_id, connected, inventory_data) ==
    IF ~(\E shop \in shops : shop.id = shop_id) \/ ~connected
    THEN BatchResult("raised", inventory_levels, {}, 0, 0)
    ELSE LET sess == sync_levels([rows |-> inventory_levels, synced_count |-> 0],
                                 shop_id, inventory_data)
         IN  BatchResult("completed", sess.rows, {}, sess.synced_count,
                         Len(inventory_data))

----------------------------------------------------------------------------
(* The upserts run one after the other on the store of an installed shop *)

\* The payloads handed to the webhook processor, and the pages fetched by the
\* sync task.
UpsertDocs == {ProductDoc, ProductDocA, ProductDocA2, ProductDocV}
SyncDocs == {ProductDocA, ProductDocA2, ProductDocV, ProductDocBadVariant}
SyncBatches == SeqsUpTo(SyncDocs, MaxBatch)
\* The shop ids a sync is started for: shop 1 is installed, shop 2 is not.
SyncShopIds == {ShopA.id, ShopB.id}

\* process_product_webhook (app.py:793-828) run on a payload.
call_process_product_webhook ==
    \E product_data \in UpsertDocs :
        \E r \in {process_product_webhook(product_data)} :
            /\ shops' = r.shops
            /\ product_sync' = r.product_sync
            /\ order_sync' = r.order_sync
            /\ webhook_logs' = r.webhook_logs
            /\ last' = Event("task", "process_product_webhook", None, None, 0,
                             Json("", ""), FALSE, FALSE, product_data, r.outcome)
            /\ UNCHANGED <<WEBHOOK_SECRET, vcall, rest, queue>>

\* sync_products_task (tasks.py:14-137) run for a shop.
call_sync_products_task ==
    \E shop_id \in SyncShopIds, connected \in BOOLEAN, products_data \in SyncBatches :
        \E r \in {sync_products_task(shop_id, connected, products_data)} :
            /\ product_sync' = r.product_sync
            /\ product_variants' = r.product_variants
            /\ last' = Event("task", "sync_products_task", None, None, 0,
                             Json("", ""), FALSE, FALSE,
                             [shop_id |-> shop_id, products |-> products_data],
                             r.outcome)
            /\ UNCHANGED <<WEBHOOK_SECRET, vcall, shops, order_sync, webhook_logs,
                           order_line_items, inventory_levels, session, workers,
                           queue>>

InitUpsert ==
    /\ WEBHOOK_SECRET = None
    /\ vcall = PendingCall(None, None)
    /\ shops = {ShopA}
    /\ product_sync = {}
    /\ order_sync = {}
    /\ webhook_logs = {}
    /\ product_variants = {}
    /\ order_line_items = {}
    /\ inventory_levels = {}
    /\ session = NoSession
    /\ workers = [w \in Workers |-> Idle]
    /\ queue = <<>>
    /\ last = NoEvent

NextUpsert ==
    \/ call_process_product_webhook
    \/ call_sync_products_task

SpecUpsert == InitUpsert /\ [][NextUpsert]_vars

----------------------------------------------------------------------------
(* The upserts run on the store of two installed shops *)

\* The product of shop A's vendor id, as the other shop's webhook carries it.
ProductDocB ==
    [id |-> 555, title |-> "Widget B", handle |-> "widget-b", shop_domain |-> DomB]

ScopeWebhookDocs == {ProductDocA, ProductDocB}
ScopeProductBatches == {<<ProductDocA2>>, <<ProductDocV>>}
ScopeLevelBatches == {<<LevelDoc>>, <<LevelDoc2>>}

\* process_product_webhook (app.py:793-828) run on a payload of either shop.
scope_process_product_webhook ==
    \E product_data \in ScopeWebhookDocs :
        \E r \in {process_product_webhook(product_data)} :
            /\ shops' = r.shops
            /\ product_sync' = r.product_sync
            /\ order_sync' = r.order_sync
            /\ webhook_logs' = r.webhook_logs
            /\ last' = Event("task", "process_product_webhook", None, None, 0,
                             Json("", ""), FALSE, FALSE, product_data, r.outcome)
            /\ UNCHANGED <<WEBHOOK_SECRET, vcall, rest, queue>>

\* sync_products_task (tasks.py:14-137) run for either shop.
scope_sync_products_task ==
    \E shop_id \in SyncShopIds, connected \in BOOLEAN,
       products_data \in ScopeProductBatches :
        \E r \in {sync_products_task(shop_id, connected, products_data)} :
            /\ product_sync' = r.product_sync
            /\ product_variants' = r.product_variants
            /\ last' = Event("task", "sync_products_task", None, None, 0,
                             Json("", ""), FALSE, FALSE,
                             [shop_id |-> shop_id, products |-> products_data],
                             r.outcome)
            /\ UNCHANGED <<WEBHOOK_SECRET, vcall, shops, order_sync, webhook_logs,
                           order_line_items, inventory_levels, session, workers,
                           queue>>

\* sync_inventory_task (tasks.py:272-339) run for either shop.
scope_sync_inventory_task ==
    \E shop_id \in SyncShopIds, connected \in BOOLEAN,
       inventory_data \in ScopeLevelBatches :
        \E r \in {sync_inventory_task(shop_id, connected, inventory_data)} :
            /\ inventory_levels' = r.rows
            /\ last' = Event("task", "sync_inventory_task", None, None, 0,
                             Json("", ""), FALSE, FALSE,
                             [shop_id |-> shop_id, levels |-> inventory_data],
                             r.outcome)
            /\ UNCHANGED <<WEBHOOK_SECRET, vcall, shops, product_sync, order_sync,
                           webhook_logs, product_variants, order_line_items,
                           session, workers, queue>>

InitScope ==
    /\ WEBHOOK_SECRET = None
    /\ vcall = PendingCall(None, None)
    /\ shops = {ShopA, ShopB}
    /\ product_sync = {}
    /\ order_sync = {}
    /\ webhook_logs = {}
    /\ product_variants = {}
    /\ order_line_items = {}
    /\ inventory_levels = {}
    /\ session = NoSession
    /\ workers = [w \in Workers |-> Idle]
    /\ queue = <<>>
    /\ last = NoEvent

NextScope ==
    \/ scope_process_product_webhook
    \/ scope_sync_products_task
    \/ scope_sync_inventory_task

SpecScope == InitScope /\ [][NextScope]_vars

----------------------------------------------------------------------------
(* The webhook processors of tasks.py, tasks.py:341-454 *)

\* The largest number of rows of webhook_logs.
MaxLogs == 3

\* WebhookLog(shop_id=..., webhook_type=..., resource_id=..., status=...)
LogRow(table, shop_id, webhook_type, resource_id, status) ==
    [id |-> NextId(table), shop_id |-> shop_id, webhook_type |-> webhook_type,
     resource_id |-> resource_id, status |-> status]

\* tasks.py:341-394.  The audit row is made with status 'processing' and
\* added to the session; the commit at line 382 writes it as 'success'.  A
\* KeyError on 'title' or 'handle' reaches the handler, which sets the row to
\* 'error' and commits the session, with what was assigned to the existing
\* product before the exception; the handler re-raises.  A payload without
\* 'id' raises before webhook_log is bound: nothing is committed.
tasks_process_product_webhook(product_data, shop_domain) ==
    IF ShopsByDomain(shop_domain) = {} THEN Untouched("returned")
    ELSE IF ~IsDict(product_data) \/ ~Has(product_data, "id") THEN Untouched("raised")
    ELSE LET shop == First(ShopsByDomain(shop_domain))
             existing == ProductsOf(product_sync, shop.id, product_data.id)
             log(status) == webhook_logs \cup
                                {LogRow(webhook_logs, shop.id, "product",
                                        product_data.id, status)}
         IN  IF ~Has(product_data, "title")
             THEN TaskResult("raised", shops, product_sync, order_sync, log("error"))
             ELSE IF ~Has(product_data, "handle")
             THEN TaskResult("raised", shops,
                             IF existing = {} THEN product_sync
                             ELSE (product_sync \ {First(existing)}) \cup
                                      {[First(existing) EXCEPT
                                            !.title = product_data.title]},
                             order_sync, log("error"))
             ELSE TaskResult("committed", shops,
                             IF existing = {}
                             THEN product_sync \cup
                                      {[id |-> NextId(product_sync),
                                        shop_id |-> shop.id,
                                        product_id |-> product_data.id,
                                        title |-> product_data.title,
                                        handle |-> product_data.handle,
                                        status |-> Get(product_data, "status", "active")]}
                             ELSE (product_sync \ {First(existing)}) \cup
                                      {[First(existing) EXCEPT
                                            !.title = product_data.title,
                                            !.handle = product_data.handle,
                                            !.status = Get(product_data, "status",
                                                           "active")]},
                             order_sync, log("success"))

\* tasks.py:396-454.  float(order_data.get('total_price', 0)) raises
\* ValueError on a text that is no number, after the status of an existing
\* row was assigned.
tasks_process_order_webhook(order_data, shop_domain) ==
    IF ShopsByDomain(shop_domain) = {} THEN Untouched("returned")
    ELSE IF ~IsDict(order_data) \/ ~Has(order_data, "id") THEN Untouched("raised")
    ELSE LET shop == First(ShopsByDomain(shop_domain))
             existing == OrdersOf(order_sync, shop.id, order_data.id)
             status == Get(order_data, "financial_status", "pending")
             total_price == float(Get(order_data, "total_price", "0"))
             log(s) == webhook_logs \cup
                           {LogRow(webhook_logs, shop.id, "order", order_data.id, s)}
         IN  IF total_price.raised
             THEN TaskResult("raised", shops, product_sync,
                             IF existing = {} THEN order_sync
                             ELSE (order_sync \ {First(existing)}) \cup
                                      {[First(existing) EXCEPT !.status = status]},
                             log("error"))
             ELSE TaskResult("committed", shops, product_sync,
                             IF existing = {}
                             THEN order_sync \cup
                                      {[id |-> NextId(order_sync), shop_id |-> shop.id,
                                        order_id |-> order_data.id,
                                        order_number |->
                                            Get(order_data, "order_number",
                                                ToString(order_data.id)),
                                        status |-> status,
                                        total_price |-> total_price.value,
                                        currency |-> Get(order_data, "currency", "USD")]}
                             ELSE (order_sync \ {First(existing)}) \cup
                                      {[First(existing) EXCEPT
                                            !.status = status,
                                            !.total_price = total_price.value,
                                            !.currency = Get(order_data, "currency",
                                                             "USD")]},
                             log("success"))

----------------------------------------------------------------------------
(* The tasks that write the audit log, run one after the other *)

\* A task run directly on its arguments.
CallTask(task, payload, result) ==
    \E r \in {result} :
        /\ shops' = r.shops
        /\ product_sync' = r.product_sync
        /\ order_sync' = r.order_sync
        /\ webhook_logs' = r.webhook_logs
        /\ last' = Event("task", task, None, None, 0, Json("", ""), FALSE, FALSE,
                         payload, r.outcome)
        /\ UNCHANGED <<WEBHOOK_SECRET, vcall, rest, queue>>

\* Payloads of the processors: complete ones, one without handle, one
\* without id, an order whose price is no number.
ProductDocNoHandle == [id |-> 555, title |-> "Widget v3"]
ProductDocNoId == [title |-> "No id", handle |-> "no-id", status |-> "active"]
OrderDocBadPrice ==
    [id |-> 1001, financial_status |-> "refunded", total_price |-> "n/a"]
AuditProductDocs == {ProductDocA, ProductDocNoHandle, ProductDocNoId}
AuditOrderDocs == {OrderDoc, OrderDocBadPrice}
AuditDomains == {DomA, DomB}

\* tasks.py:341-394
call_tasks_process_product_webhook ==
    /\ Cardinality(webhook_logs) < MaxLogs
    /\ \E product_data \in AuditProductDocs, shop_domain \in AuditDomains :
           CallTask("tasks.process_product_webhook",
                    [data |-> product_data, shop_domain |-> shop_domain],
                    tasks_process_product_webhook(product_data, shop_domain))

\* tasks.py:396-454
call_tasks_process_order_webhook ==
    /\ Cardinality(webhook_logs) < MaxLogs
    /\ \E order_data \in AuditOrderDocs, shop_domain \in AuditDomains :
           CallTask("tasks.process_order_webhook",
                    [data |-> order_data, shop_domain |-> shop_domain],
                    tasks_process_order_webhook(order_data, shop_domain))

\* app.py:871-952, 954-1034, 1036-1121
call_process_customer_data_request ==
    CallTask("process_customer_data_request", ComplianceDoc,
             process_customer_data_request(ComplianceDoc))
call_process_customer_redact ==
    CallTask("process_customer_redact", ComplianceDoc,
             process_customer_redact(ComplianceDoc))
call_process_shop_redact ==
    CallTask("process_shop_redact", ComplianceDoc, process_shop_redact(ComplianceDoc))

InitAudit ==
    /\ WEBHOOK_SECRET = None
    /\ vcall = PendingCall(None, None)
    /\ shops = {ShopA}
    /\ product_sync = {}
    /\ order_sync = {}
    /\ webhook_logs = {}
    /\ product_variants = {}
    /\ order_line_items = {}
    /\ inventory_levels = {}
    /\ session = NoSession
    /\ workers = [w \in Workers |-> Idle]
    /\ queue = <<>>
    /\ last = NoEvent

NextAudit ==
    \/ call_tasks_process_product_webhook
    \/ call_tasks_process_order_webhook
    \/ call_process_customer_data_request
    \/ call_process_customer_redact
    \/ call_process_shop_redact

SpecAudit == InitAudit /\ [][NextAudit]_vars

----------------------------------------------------------------------------
(* Two workers run the webhook processors of app.py at the same time.  Each  *)
(* task is a transaction of its own: its query (app.py:806-809, 843-846)     *)
(* sees the rows committed so far, its commit (app.py:824, 864) comes later. *)
(* models.py declares no unique constraint on (shop_id, product_id) or on    *)
(* (shop_id, order_id): the database accepts every insert.                   *)

\* The payloads the two workers process.
ConcProductDocs == {ProductDocA, ProductDocA2}
ConcOrderDocs == {OrderDoc}

\* The primary key of the row .first() returned, 0 for None.
FoundId(rows) == IF rows = {} THEN 0 ELSE First(rows).id

\* app.py:811-822 on the row the query returned: the UPDATE goes by primary
\* key, the INSERT takes the next key.
product_write(table, shop_id, existing_id, product_data) ==
    IF existing_id # 0
    THEN {IF r.id = existing_id
          THEN [r EXCEPT !.title = product_data.title, !.handle = product_data.handle]
          ELSE r : r \in table}
    ELSE table \cup {[id |-> NextId(table), shop_id |-> shop_id,
                      product_id |-> product_data.id, title |-> product_data.title,
                      handle |-> product_data.handle, status |-> "active"]}

\* app.py:848-862 on the row the query returned.
order_write(table, shop_id, existing_id, order_data) ==
    IF existing_id # 0
    THEN {IF r.id = existing_id
          THEN [r EXCEPT !.status = order_data.financial_status,
                         !.total_price = float(order_data.total_price).value,
                         !.currency = order_data.currency]
          ELSE r : r \in table}
    ELSE table \cup {[id |-> NextId(table), shop_id |-> shop_id,
                      order_id |-> order_data.id,
                      order_number |-> order_data.order_number,
                      status |-> order_data.financial_status,
                      total_price |-> float(order_data.total_price).value,
                      currency |-> order_data.currency]}

\* app.py:797-809: worker w takes a product task and runs it up to the query.
\* A task that returns early or raises (as the sequential processor tells)
\* is over at once.
product_task_query(w) ==
    /\ workers[w] = Idle
    /\ \E product_data \in ConcProductDocs :
           IF process_product_webhook(product_data).outcome # "committed"
           THEN /\ last' = Event("task", "process_product_webhook", None, None, 0,
                                 Json("", ""), FALSE, FALSE, product_data,
                                 process_product_webhook(product_data).outcome)
                /\ UNCHANGED workers
           ELSE LET shop_id == First(ShopsByDomain(product_data.shop_domain)).id
                IN  /\ workers' =
                           [workers EXCEPT ![w] =
                               [pc |-> "product", data |-> product_data,
                                shop_id |-> shop_id,
                                existing |-> FoundId(ProductsOf(product_sync, shop_id,
                                                                product_data.id))]]
                    /\ UNCHANGED last
    /\ UNCHANGED <<WEBHOOK_SECRET, vcall, store, session, queue>>

\* app.py:811-825: worker w writes and commits.
product_task_commit(w) ==
    /\ workers[w].pc = "product"
    /\ product_sync' = product_write(product_sync, workers[w].shop_id,
                                     workers[w].existing, workers[w].data)
    /\ workers' = [workers EXCEPT ![w] = Idle]
    /\ last' = Event("task", "process_product_webhook", None, None, 0, Json("", ""),
                     FALSE, FALSE, workers[w].data, "committed")
    /\ UNCHANGED <<WEBHOOK_SECRET, vcall, shops, order_sync, webhook_logs,
                   product_variants, order_line_items, inventory_levels, session,
                   queue>>

\* app.py:834-846
order_task_query(w) ==
    /\ workers[w] = Idle
    /\ \E order_data \in ConcOrderDocs :
           IF process_order_webhook(order_data).outcome # "committed"
           THEN /\ last' = Event("task", "process_order_webhook", None, None, 0,
                                 Json("", ""), FALSE, FALSE, order_data,
                                 process_order_webhook(order_data).outcome)
                /\ UNCHANGED workers
           ELSE LET shop_id == First(ShopsByDomain(order_data.shop_domain)).id
                IN  /\ workers' =
                           [workers EXCEPT ![w] =
                               [pc |-> "order", data |-> order_data,
                                shop_id |-> shop_id,
                                existing |-> FoundId(OrdersOf(order_sync, shop_id,
                                                              order_data.id))]]
                    /\ UNCHANGED last
    /\ UNCHANGED <<WEBHOOK_SECRET, vcall, store, session, queue>>

\* app.py:848-865
order_task_commit(w) ==
    /\ workers[w].pc = "order"
    /\ order_sync' = order_write(order_sync, workers[w].shop_id, workers[w].existing,
                                 workers[w].data)
    /\ workers' = [workers EXCEPT ![w] = Idle]
    /\ last' = Event("task", "process_order_webhook", None, None, 0, Json("", ""),
                     FALSE, FALSE, workers[w].data, "committed")
    /\ UNCHANGED <<WEBHOOK_SECRET, vcall, shops, product_sync, webhook_logs,
                   product_variants, order_line_items, inventory_levels, session,
                   queue>>

InitConc ==
    /\ WEBHOOK_SECRET = None
    /\ vcall = PendingCall(None, None)
    /\ shops \in {{ShopA}, {}}
    /\ product_sync = {}
    /\ order_sync = {}
    /\ webhook_logs = {}
    /\ product_variants = {}
    /\ order_line_items = {}
    /\ inventory_levels = {}
    /\ session = NoSession
    /\ workers = [w \in Workers |-> Idle]
    /\ queue = <<>>
    /\ last = NoEvent

NextConc ==
    \E w \in Workers :
        \/ product_task_query(w)
        \/ product_task_commit(w)
        \/ order_task_query(w)
        \/ order_task_commit(w)

SpecConc == InitConc /\ [][NextConc]_vars

----------------------------------------------------------------------------
(* The OAuth flow, app.py:246-357 *)

\* A shop parameter that is no vendor domain, the values os.urandom(16).hex()
\* takes, the authorization code and the tokens the vendor issues.
OtherSite == "shop.example.com"
OAuthStates == {"state-1", "state-2"}
AuthCode == "code"
AccessTokens == {"token-1", "token-2"}

\* shop.endswith('.myshopify.com')
endswith_myshopify(shop) == shop \in {DomA, DomB}

\* What requests.post(token_url), raise_for_status(), response.json() and
\* token_response['access_token'] come to: a token, a RequestException, or a
\* KeyError for a response without token.
TokenExchanges ==
    {[raised |-> "", access_token |-> t] : t \in AccessTokens}
        \cup {[raised |-> "RequestException", access_token |-> ""],
              [raised |-> "KeyError", access_token |-> ""]}

\* What an OAuth handler answers, the cookie session and the Shop rows it
\* leaves.
AuthReply(status, body, outcome, oauth_session, shop_rows) ==
    [status |-> status, body |-> body, outcome |-> outcome,
     session |-> oauth_session, shops |-> shop_rows]

\* app.py:246-274
auth_response(shop, state) ==
    IF shop = ""
    THEN AuthReply(400, Json("error", "Shop parameter is required"), "rejected",
                   session, shops)
    ELSE IF ~endswith_myshopify(shop)
    THEN AuthReply(400, Json("error", "Invalid shop domain"), "rejected",
                   session, shops)
    ELSE AuthReply(302, Json("location", shop), "redirected",
                   [session EXCEPT !.oauth_state = state], shops)

\* Mutant: the callback adds a Shop row without looking for the domain's row.
store_shop_always_inserts(table, shop, access_token) ==
    table \cup {[id |-> NextId(table), shop_domain |-> shop,
                 access_token |-> access_token]}

\* app.py:326-335: the row of the domain gets the token, or a row is added.
store_shop(table, shop, access_token) ==
    LET shop_record == {r \in table : r.shop_domain = shop}
    IN  IF shop_record # {}
        THEN (table \ {First(shop_record)}) \cup
                 {[First(shop_record) EXCEPT !.access_token = access_token]}
        ELSE table \cup {[id |-> NextId(table), shop_domain |-> shop,
                          access_token |-> access_token]}

\* app.py:285-357: the callback from the state check on, stored_state being
\* session.get('oauth_state').
auth_callback_reply(stored_state, code, shop, state, exchange) ==
    IF state = ""
    THEN AuthReply(400, Json("error", "Missing state parameter"), "rejected",
                   session, shops)
    ELSE IF stored_state = "" \/ state # stored_state
    THEN AuthReply(400, Json("error", "Invalid state parameter"), "rejected",
                   session, shops)
    ELSE IF code = "" \/ shop = ""
    THEN AuthReply(400, Json("error", "Missing authorization code or shop"),
                   "rejected", session, shops)
    ELSE IF exchange.raised = "RequestException"
    THEN AuthReply(500, Json("error", "Failed to exchange code for token"),
                   "exchange_failed", session, shops)
    ELSE IF exchange.raised = "KeyError"
    THEN AuthReply(500, Json("", ""), "raised", session, shops)
    ELSE AuthReply(200,
                   Json("message", "Authentication successful")
                       @@ [shop |-> shop, access_token |-> exchange.access_token],
                   IF ShopsByDomain(shop) # {} THEN "updated" ELSE "inserted",
                   [session EXCEPT !.oauth_state = ""],
                   store_shop(shops, shop, exchange.access_token))

\* Mutant: the callback finds no state in the session.
auth_callback_response_session_lost(code, shop, state, exchange) ==
    auth_callback_reply("", code, shop, state, exchange)

\* A callback that would leave the state in the session (no session.pop).
auth_callback_response_keeps_state(code, shop, state, exchange) ==
    [auth_callback_reply(session.oauth_state, code, shop, state, exchange)
         EXCEPT !.session = session]

\* app.py:276-357
auth_callback_response(code, shop, state, exchange) ==
    auth_callback_reply(session.oauth_state, code, shop, state, exchange)

\* The callbacks the vendor redirects to, and callbacks that miss a parameter.
CallbackRequests ==
    {[code |-> AuthCode, shop |-> shop, state |-> state, exchange |-> exchange] :
        shop \in {DomA, DomB}, state \in OAuthStates, exchange \in TokenExchanges}
    \cup {[code |-> code, shop |-> shop, state |-> state,
           exchange |-> [raised |-> "", access_token |-> "token-1"]] :
            code \in {"", AuthCode}, shop \in {"", DomA}, state \in {"", "state-1"}}

\* GET /auth
auth ==
    \E shop \in {"", DomA, OtherSite}, state \in OAuthStates :
        \E r \in {auth_response(shop, state)} :
            /\ session' = r.session
            /\ last' = Event("http", "auth", None, None, r.status, r.body, FALSE,
                             FALSE, [shop |-> shop], r.outcome)
            /\ UNCHANGED <<WEBHOOK_SECRET, vcall, store, workers, queue>>

\* GET /auth/callback
auth_callback ==
    \E q \in CallbackRequests :
        \E r \in {auth_callback_response(q.code, q.shop, q.state, q.exchange)} :
            /\ shops' = r.shops
            /\ session' = r.session
            /\ last' = Event("http", "auth_callback", None, None, r.status, r.body,
                             FALSE, FALSE, q, r.outcome)
            /\ UNCHANGED <<WEBHOOK_SECRET, vcall, product_sync, order_sync,
                           webhook_logs, product_variants, order_line_items,
                           inventory_levels, workers, queue>>

\* process_order_webhook (app.py:830-868) run on an order payload.
call_process_order_webhook ==
    CallTask("process_order_webhook", OrderDoc, process_order_webhook(OrderDoc))

InitAuth ==
    /\ WEBHOOK_SECRET = None
    /\ vcall = PendingCall(None, None)
    /\ shops = {}
    /\ product_sync = {}
    /\ order_sync = {}
    /\ webhook_logs = {}
    /\ product_variants = {}
    /\ order_line_items = {}
    /\ inventory_levels = {}
    /\ session = NoSession
    /\ workers = [w \in Workers |-> Idle]
    /\ queue = <<>>
    /\ last = NoEvent

NextAuth ==
    \/ auth
    \/ auth_callback
    \/ scope_process_product_webhook
    \/ call_process_order_webhook
    \/ scope_sync_inventory_task
    \/ call_process_customer_data_request
    \/ call_process_customer_redact
    \/ call_process_shop_redact

SpecAuth == InitAuth /\ [][NextAuth]_vars

----------------------------------------------------------------------------
(* The sync triggers and the tasks they queue, app.py:502-532, 724-790 *)

\* A JSON object without the key 'shop'.
NoShopBody == [force |-> TRUE]
\* The bodies POSTed to a trigger: for the installed shop, for a domain
\* without Shop row, without shop parameter, and a JSON list.
TriggerBodies == {[shop |-> DomA], [shop |-> DomB], NoShopBody, NonDict}

\* app.py:502-516, 518-532.  request.json.get raises AttributeError on a body
\* that is no object and .delay() raises when the broker is unreachable;
\* neither is caught, the framework answers 500 with its own page.
SyncResponse(task, started, body, broker_up) ==
    IF ~IsDict(body)
    THEN Reply(500, Json("", ""), TRUE, FALSE, <<>>)
    ELSE IF ~Has(body, "shop")
    THEN Reply(400, Json("error", "Shop parameter is required"), TRUE, FALSE, <<>>)
    ELSE IF ShopsByDomain(body.shop) = {}
    THEN Reply(404, Json("error", "Shop not found"), TRUE, FALSE, <<>>)
    ELSE IF ~broker_up
    THEN Reply(500, Json("", ""), TRUE, FALSE, <<>>)
    ELSE LET shop_record == First(ShopsByDomain(body.shop))
         IN  Reply(200, Json("message", started), TRUE, TRUE,
                   <<[task |-> task,
                      payload |-> [shop_id |-> shop_record.id,
                                   shop_domain |-> body.shop,
                                   access_token |-> shop_record.access_token]]>>)

\* One POST to a trigger.
HandleTrigger(op, task, started) ==
    \E body \in TriggerBodies, broker_up \in BOOLEAN :
        \E r \in {SyncResponse(task, started, body, broker_up)} :
            /\ Len(queue) + Len(r.sent) <= MaxQueue
            /\ queue' = queue \o r.sent
            /\ last' = Event("http", op, None, None, r.status, r.body, r.parsed,
                             r.enqueued, body, "answered")
            /\ UNCHANGED <<WEBHOOK_SECRET, vcall, store, session, workers>>

\* app.py:502-516
api_sync_products == HandleTrigger("/api/sync/products", "sync_products_task",
                                   "Product sync started")
\* app.py:518-532
api_sync_orders == HandleTrigger("/api/sync/orders", "sync_orders_task",
                                 "Order sync started")

\* app.py:730-747: the loop of the task over the vendor's products.
RECURSIVE app_sync_products(_, _, _)
app_sync_products(table, shop_id, products) ==
    IF products = <<>> THEN table
    ELSE app_sync_products(webhook_upsert(table, shop_id, Head(products)),
                           shop_id, Tail(products))

\* app.py:763-784: the loop of the task over the vendor's orders.
RECURSIVE app_sync_orders(_, _, _)
app_sync_orders(table, shop_id, orders) ==
    IF orders = <<>> THEN table
    ELSE app_sync_orders(order_webhook_upsert(table, shop_id, Head(orders)),
                         shop_id, Tail(orders))

\* app.py:724-755.  Whatever raises (the vendor unreachable, a product without
\* title or handle) is logged by the task's handler before the commit.
app_sync_products_task(args, connected, products) ==
    IF ~connected THEN Untouched("error")
    ELSE IF \E i \in 1..Len(products) :
                ~({"id", "title", "handle"} \subseteq DOMAIN products[i])
    THEN Untouched("error")
    ELSE TaskResult("committed", shops,
                    app_sync_products(product_sync, args.shop_id, products),
                    order_sync, webhook_logs)

\* app.py:757-790
app_sync_orders_task(args, connected, orders) ==
    IF ~connected THEN Untouched("error")
    ELSE IF \E i \in 1..Len(orders) :
                \/ ~({"id", "order_number", "financial_status", "total_price",
                      "currency"} \subseteq DOMAIN orders[i])
                \/ float(orders[i].total_price).raised
    THEN Untouched("error")
    ELSE TaskResult("committed", shops, product_sync,
                    app_sync_orders(order_sync, args.shop_id, orders),
                    webhook_logs)

\* What shopify.Product.find and shopify.Order.find return.
VendorProducts == {<<>>, <<ProductDocA>>, <<ProductDocA2, ProductDocNoHandle>>}
VendorOrders == {<<>>, <<OrderDoc>>, <<OrderDoc, OrderDocBadPrice>>}

\* The worker runs the oldest task of the queue.
run_sync_products_task ==
    \E connected \in BOOLEAN, products \in VendorProducts :
        RunTask("sync_products_task",
                app_sync_products_task(HeadPayload, connected, products))
run_sync_orders_task ==
    \E connected \in BOOLEAN, orders \in VendorOrders :
        RunTask("sync_orders_task",
                app_sync_orders_task(HeadPayload, connected, orders))

InitTrigger ==
    /\ WEBHOOK_SECRET = None
    /\ vcall = PendingCall(None, None)
    /\ shops = {ShopA}
    /\ product_sync = {}
    /\ order_sync = {}
    /\ webhook_logs = {}
    /\ product_variants = {}
    /\ order_line_items = {}
    /\ inventory_levels = {}
    /\ session = NoSession
    /\ workers = [w \in Workers |-> Idle]
    /\ queue = <<>>
    /\ last = NoEvent

NextTrigger ==
    \/ api_sync_products
    \/ api_sync_orders
    \/ run_sync_products_task
    \/ run_sync_orders_task

SpecTrigger == InitTrigger /\ [][NextTrigger]_vars

----------------------------------------------------------------------------
(* The sync tasks run on batches with resources that raise *)

BatchProductDocs == {ProductDocV, ProductDocA2, ProductDocBadVariant, ProductDocNoId}
BatchOrderDocs ==
    {SyncOrderDoc, SyncOrderDocNoCurrency, SyncOrderDocBadItem, SyncOrderDocNoId}
BatchLevels == {<<LevelDoc2>>, <<LevelDocNoAvailable, LevelDoc>>}

\* The dict a sync task returns (tasks.py:132-136, 262-266, 331-335); None
\* when it raised.
Returned(r) ==
    IF r.outcome = "completed"
    THEN [status |-> "completed", synced_count |-> r.synced_count,
          total |-> r.total]
    ELSE [status |-> "raised", synced_count |-> 0, total |-> 0]

\* The event of a sync task: its arguments, how it ended, what it returned.
BatchEvent(task, shop_id, connected, batch, r) ==
    Event("task", task, None, None, 0, Json("", ""), FALSE, FALSE,
          [shop_id |-> shop_id, connected |-> connected, batch |-> batch],
          r.outcome) @@ [returned |-> Returned(r)]

\* sync_products_task (tasks.py:14-137)
batch_sync_products_task ==
    \E connected \in BOOLEAN, products_data \in SeqsUpTo(BatchProductDocs, MaxBatch) :
        \E r \in {sync_products_task(ShopA.id, connected, products_data)} :
            /\ product_sync' = r.product_sync
            /\ product_variants' = r.product_variants
            /\ last' = BatchEvent("sync_products_task", ShopA.id, connected,
                                  products_data,
                                  r @@ [total |-> Len(products_data)])
            /\ UNCHANGED <<WEBHOOK_SECRET, vcall, shops, order_sync, webhook_logs,
                           order_line_items, inventory_levels, session, workers,
                           queue>>

\* sync_orders_task (tasks.py:139-270)
batch_sync_orders_task ==
    \E orders_data \in SeqsUpTo(BatchOrderDocs, MaxBatch) :
        \E r \in {sync_orders_task(ShopA.id, TRUE, orders_data)} :
            /\ order_sync' = r.rows
            /\ order_line_items' = r.children
            /\ last' = BatchEvent("sync_orders_task", ShopA.id, TRUE, orders_data, r)
            /\ UNCHANGED <<WEBHOOK_SECRET, vcall, shops, product_sync, webhook_logs,
                           product_variants, inventory_levels, session, workers,
                           queue>>

\* sync_inventory_task (tasks.py:272-339)
batch_sync_inventory_task ==
    \E inventory_data \in BatchLevels :
        \E r \in {sync_inventory_task(ShopA.id, TRUE, inventory_data)} :
            /\ inventory_levels' = r.rows
            /\ last' = BatchEvent("sync_inventory_task", ShopA.id, TRUE,
                                  inventory_data, r)
            /\ UNCHANGED <<WEBHOOK_SECRET, vcall, shops, product_sync, order_sync,
                           webhook_logs, product_variants, order_line_items,
                           session, workers, queue>>

InitBatch ==
    /\ WEBHOOK_SECRET = None
    /\ vcall = PendingCall(None, None)
    /\ shops = {ShopA}
    /\ product_sync = {}
    /\ order_sync = {}
    /\ webhook_logs = {}
    /\ product_variants = {}
    /\ order_line_items = {}
    /\ inventory_levels = {}
    /\ session = NoSession
    /\ workers = [w \in Workers |-> Idle]
    /\ queue = <<>>
    /\ last = NoEvent

NextBatch ==
    \/ batch_sync_products_task
    \/ batch_sync_orders_task
    \/ batch_sync_inventory_task

SpecBatch == InitBatch /\ [][NextBatch]_vars

----------------------------------------------------------------------------
(* The sync tasks run on payloads that lack children stored earlier *)

\* A second variant and a second line item, and the product and the order of
\* the first ones listed with these instead, or with no line item at all.
VariantDoc2 == [id |-> 9002, title |-> "Large", price |-> "39.99"]
ProductDocV2 ==
    [id |-> 555, title |-> "Widget", handle |-> "widget", status |-> "active",
     variants |-> <<VariantDoc2>>]
LineItemDoc2 == [id |-> 7002, title |-> "Gadget", quantity |-> 1, price |-> "5.00"]
SyncOrderDoc2 ==
    [id |-> 1001, order_number |-> "1001", status |-> "open",
     total_price |-> "5.00", currency |-> "USD", line_items |-> <<LineItemDoc2>>]
SyncOrderDocNoItems ==
    [id |-> 1001, order_number |-> "1001", status |-> "closed",
     total_price |-> "29.99", currency |-> "USD", line_items |-> <<>>]
AbsentProductDocs == {ProductDocV, ProductDocV2, ProductDocA2}
AbsentOrderDocs == {SyncOrderDoc, SyncOrderDoc2, SyncOrderDocNoItems}

\* sync_products_task (tasks.py:14-137)
absent_sync_products_task ==
    \E products_data \in SeqsUpTo(AbsentProductDocs, MaxBatch) :
        \E r \in {sync_products_task(ShopA.id, TRUE, products_data)} :
            /\ product_sync' = r.product_sync
            /\ product_variants' = r.product_variants
            /\ last' = BatchEvent("sync_products_task", ShopA.id, TRUE,
                                  products_data,
                                  r @@ [total |-> Len(products_data)])
            /\ UNCHANGED <<WEBHOOK_SECRET, vcall, shops, order_sync, webhook_logs,
                           order_line_items, inventory_levels, session, workers,
                           queue>>

\* sync_orders_task (tasks.py:139-270)
absent_sync_orders_task ==
    \E orders_data \in SeqsUpTo(AbsentOrderDocs, MaxBatch) :
        \E r \in {sync_orders_task(ShopA.id, TRUE, orders_data)} :
            /\ order_sync' = r.rows
            /\ order_line_items' = r.children
            /\ last' = BatchEvent("sync_orders_task", ShopA.id, TRUE, orders_data, r)
            /\ UNCHANGED <<WEBHOOK_SECRET, vcall, shops, product_sync, webhook_logs,
                           product_variants, inventory_levels, session, workers,
                           queue>>

NextAbsent ==
    \/ absent_sync_products_task
    \/ absent_sync_orders_task

SpecAbsent == InitBatch /\ [][NextAbsent]_vars

----------------------------------------------------------------------------
(* The product processors run on payloads of different age *)

\* Two states of product 555 and of order 1001 as the vendor sent them, the
\* older and the newer.
ProductDocEarlier ==
    [id |-> 555, title |-> "Widget", handle |-> "widget", status |-> "active",
     updated_at |-> Timestamps[1], shop_domain |-> DomA]
ProductDocLater ==
    [id |-> 555, title |-> "Widget v2", handle |-> "widget-v2", status |-> "draft",
     updated_at |-> Timestamps[2], shop_domain |-> DomA]
OrderDocEarlier ==
    [id |-> 1001, order_number |-> "1001", financial_status |-> "pending",
     total_price |-> "29.99", currency |-> "USD", updated_at |-> Timestamps[1],
     shop_domain |-> DomA]
OrderDocLater ==
    [id |-> 1001, order_number |-> "1001", financial_status |-> "refunded",
     total_price |-> "0", currency |-> "EUR", updated_at |-> Timestamps[2],
     shop_domain |-> DomA]
StaleProductDocs == {ProductDocEarlier, ProductDocLater}
StaleOrderDocs == {OrderDocEarlier, OrderDocLater}

\* A processor run directly on a payload; the event keeps the rows the store
\* held for the payload's resource before the run.
CallOnResource(task, payload, previous, result) ==
    \E r \in {result} :
        /\ shops' = r.shops
        /\ product_sync' = r.product_sync
        /\ order_sync' = r.order_sync
        /\ webhook_logs' = r.webhook_logs
        /\ last' = Event("task", task, None, None, 0, Json("", ""), FALSE, FALSE,
                         payload, r.outcome) @@ [previous |-> previous]
        /\ UNCHANGED <<WEBHOOK_SECRET, vcall, rest, queue>>

\* app.py:793-828
stale_process_product_webhook ==
    \E product_data \in StaleProductDocs :
        CallOnResource("process_product_webhook", product_data,
                       {p \in product_sync : p.product_id = product_data.id},
                       process_product_webhook(product_data))

\* app.py:830-868
stale_process_order_webhook ==
    \E order_data \in StaleOrderDocs :
        CallOnResource("process_order_webhook", order_data,
                       {o \in order_sync : o.order_id = order_data.id},
                       process_order_webhook(order_data))

\* tasks.py:341-394
stale_tasks_process_product_webhook ==
    /\ Cardinality(webhook_logs) < MaxLogs
    /\ \E product_data \in StaleProductDocs :
           CallOnResource("tasks.process_product_webhook", product_data,
                          {p \in product_sync : p.product_id = product_data.id},
                          tasks_process_product_webhook(product_data,
                                                        product_data.shop_domain))

\* tasks.py:396-454
stale_tasks_process_order_webhook ==
    /\ Cardinality(webhook_logs) < MaxLogs
    /\ \E order_data \in StaleOrderDocs :
           CallOnResource("tasks.process_order_webhook", order_data,
                          {o \in order_sync : o.order_id = order_data.id},
                          tasks_process_order_webhook(order_data,
                                                      order_data.shop_domain))

NextStale ==
    \/ stale_process_product_webhook
    \/ stale_process_order_webhook
    \/ stale_tasks_process_product_webhook
    \/ stale_tasks_process_order_webhook

SpecStale == InitAudit /\ [][NextStale]_vars

----------------------------------------------------------------------------
(* The customer compliance tasks run on a store with rows *)

\* Payloads as the vendor documents them (app.py:877-892, 960-970): a data
\* request and a redaction that list the stored order 1001, and one that names
\* the shop only.
CustomerDoc == [id |-> 191167, email |-> "john@example.com"]
DataRequestDoc ==
    [shop_id |-> 954889, shop_domain |-> DomA, customer |-> CustomerDoc,
     orders_requested |-> <<1001>>]
CustomerRedactDoc ==
    [shop_id |-> 954889, shop_domain |-> DomA, customer |-> CustomerDoc,
     orders_to_redact |-> <<1001, 1002>>]
DataRequestDocs == {DataRequestDoc, ComplianceDoc}
CustomerRedactDocs == {CustomerRedactDoc, ComplianceDoc}

\* app.py:871-952
redact_process_customer_data_request ==
    \E webhook_data \in DataRequestDocs :
        CallTask("process_customer_data_request", webhook_data,
                 process_customer_data_request(webhook_data))

\* app.py:954-1034
redact_process_customer_redact ==
    \E webhook_data \in CustomerRedactDocs :
        CallTask("process_customer_redact", webhook_data,
                 process_customer_redact(webhook_data))

NextRedact ==
    \/ absent_sync_products_task
    \/ absent_sync_orders_task
    \/ batch_sync_inventory_task
    \/ redact_process_customer_data_request
    \/ redact_process_customer_redact

SpecRedact == InitBatch /\ [][NextRedact]_vars

----------------------------------------------------------------------------
(* A sync queued before a shop redact and run after it *)

\* The triggers queue the sync tasks of app.py; a worker runs the shop redact
\* of a.myshopify.com while a sync task waits in the queue, another runs the
\* sync task afterwards.
NextAfterRedact ==
    \/ api_sync_products
    \/ api_sync_orders
    \/ run_sync_products_task
    \/ run_sync_orders_task
    \/ call_process_shop_redact

SpecAfterRedact == InitTrigger /\ [][NextAfterRedact]_vars

----------------------------------------------------------------------------
(* The shop redact run on a store with parents and children *)

NextOrphan ==
    \/ absent_sync_products_task
    \/ absent_sync_orders_task
    \/ call_process_shop_redact

SpecOrphan == InitBatch /\ [][NextOrphan]_vars

----------------------------------------------------------------------------
(* The sync tasks run with the vendor reachable or not *)

FetchProducts == {<<ProductDocA2>>, <<ProductDocV, ProductDocA2>>}
FetchOrders == {<<OrderDoc>>}
FetchLevels == {<<LevelDoc>>, <<LevelDoc2>>}

\* The event of a sync task run on the installed shop.
FetchEvent(op, connected, batch, outcome) ==
    Event("task", op, None, None, 0, Json("", ""), FALSE, FALSE,
          [shop_id |-> ShopA.id, connected |-> connected, batch |-> batch], outcome)

\* sync_products_task of tasks.py (tasks.py:14-137)
fetch_tasks_sync_products_task ==
    \E connected \in BOOLEAN, products_data \in FetchProducts :
        \E r \in {sync_products_task(ShopA.id, connected, products_data)} :
            /\ product_sync' = r.product_sync
            /\ product_variants' = r.product_variants
            /\ last' = FetchEvent("tasks.sync_products_task", connected,
                                  products_data, r.outcome)
            /\ UNCHANGED <<WEBHOOK_SECRET, vcall, shops, order_sync, webhook_logs,
                           order_line_items, inventory_levels, session, workers,
                           queue>>

\* sync_inventory_task of tasks.py (tasks.py:272-339)
fetch_tasks_sync_inventory_task ==
    \E connected \in BOOLEAN, inventory_data \in FetchLevels :
        \E r \in {sync_inventory_task(ShopA.id, connected, inventory_data)} :
            /\ inventory_levels' = r.rows
            /\ last' = FetchEvent("tasks.sync_inventory_task", connected,
                                  inventory_data, r.outcome)
            /\ UNCHANGED <<WEBHOOK_SECRET, vcall, shops, product_sync, order_sync,
                           webhook_logs, product_variants, order_line_items,
                           session, workers, queue>>

\* A task of app.py run on the installed shop.
FetchAppTask(op, connected, batch, result) ==
    \E r \in {result} :
        /\ shops' = r.shops
        /\ product_sync' = r.product_sync
        /\ order_sync' = r.order_sync
        /\ webhook_logs' = r.webhook_logs
        /\ last' = FetchEvent(op, connected, batch, r.outcome)
        /\ UNCHANGED <<WEBHOOK_SECRET, vcall, rest, queue>>

\* sync_products_task of app.py (app.py:724-755), the task the trigger queues
fetch_app_sync_products_task ==
    \E connected \in BOOLEAN, products \in FetchProducts :
        FetchAppTask("app.sync_products_task", connected, products,
                     app_sync_products_task([shop_id |-> ShopA.id], connected,
                                            products))

\* sync_orders_task of app.py (app.py:757-790)
fetch_app_sync_orders_task ==
    \E connected \in BOOLEAN, orders \in FetchOrders :
        FetchAppTask("app.sync_orders_task", connected, orders,
                     app_sync_orders_task([shop_id |-> ShopA.id], connected, orders))

InitFetch ==
    /\ WEBHOOK_SECRET = None
    /\ vcall = PendingCall(None, None)
    /\ shops = {ShopA}
    /\ product_sync = {}
    /\ order_sync = {}
    /\ webhook_logs = {}
    /\ product_variants = {}
    /\ order_line_items = {}
    /\ inventory_levels = {}
    /\ session = NoSession
    /\ workers = [w \in Workers |-> Idle]
    /\ queue = <<>>
    /\ last = NoEvent

NextFetch ==
    \/ fetch_tasks_sync_products_task
    \/ fetch_tasks_sync_inventory_task
    \/ fetch_app_sync_products_task
    \/ fetch_app_sync_orders_task

SpecFetch == InitFetch /\ [][NextFetch]_vars

----------------------------------------------------------------------------
(* The registration of the compliance webhooks, app.py:165-238, 337-344 *)

\* app.py:183-199
ComplianceTopics == <<"customers/data_request", "customers/redact", "shop/redact">>

\* What the vendor's answers bring a topic's turn of the loop to: the webhook
\* is found registered ("exists"), it is registered ("registered"), a
\* requests.exceptions.RequestException is raised by the listing or the POST
\* (connection failure, error status: "request_error"), any other exception is
\* raised (a 200 answer whose JSON is no object: "unexpected_error").
RegistrationOutcomes == {"exists", "registered", "request_error", "unexpected_error"}

\* app.py:207-238: the loop from topic i on.  The handler at line 234 catches
\* RequestException only; any other exception leaves the function.
RECURSIVE register_topics(_, _, _)
register_topics(i, outcomes, done) ==
    IF i > Len(ComplianceTopics) THEN done
    ELSE LET attempted == Append(done.attempted, ComplianceTopics[i])
         IN  IF outcomes[i] = "unexpected_error"
             THEN [done EXCEPT !.attempted = attempted, !.raised = TRUE]
             ELSE register_topics(
                      i + 1, outcomes,
                      [done EXCEPT
                          !.attempted = attempted,
                          !.registered =
                              IF outcomes[i] = "registered"
                              THEN done.registered \cup {ComplianceTopics[i]}
                              ELSE done.registered])

\* app.py:165-238
register_compliance_webhooks(outcomes) ==
    register_topics(1, outcomes,
                    [attempted |-> <<>>, registered |-> {}, raised |-> FALSE])

\* Mutant: the callback without the try around the registration (app.py:338).
auth_callback_registration_uncaught(code, shop, state, exchange, outcomes) ==
    LET r == auth_callback_response(code, shop, state, exchange)
        registration == register_compliance_webhooks(outcomes)
    IN  IF r.status # 200
        THEN r @@ [registration |-> register_topics(4, outcomes,
                       [attempted |-> <<>>, registered |-> {}, raised |-> FALSE])]
        ELSE IF registration.raised
        THEN AuthReply(500, Json("", ""), "raised", session, r.shops)
                 @@ [registration |-> registration]
        ELSE r @@ [registration |-> registration]

\* app.py:276-357 with the registration of lines 337-344: it is attempted
\* after the commit of the Shop row, and `except Exception` logs whatever it
\* raises.
auth_callback_registration(code, shop, state, exchange, outcomes) ==
    LET r == auth_callback_response(code, shop, state, exchange)
    IN  r @@ [registration |->
                 IF r.status = 200 THEN register_compliance_webhooks(outcomes)
                 ELSE [attempted |-> <<>>, registered |-> {}, raised |-> FALSE]]

\* GET /auth/callback for shop A, with the vendor's answers to the
\* registration calls.
auth_callback_registers ==
    \E state \in OAuthStates, exchange \in TokenExchanges,
       outcomes \in [1..Len(ComplianceTopics) -> RegistrationOutcomes] :
        \E r \in {auth_callback_registration(AuthCode, DomA, state, exchange,
                                             outcomes)} :
            /\ shops' = r.shops
            /\ session' = r.session
            /\ last' = Event("http", "auth_callback", None, None, r.status, r.body,
                             FALSE, FALSE,
                             [code |-> AuthCode, shop |-> DomA, state |-> state,
                              exchange |-> exchange, outcomes |-> outcomes],
                             r.outcome) @@ [registration |-> r.registration]
            /\ UNCHANGED <<WEBHOOK_SECRET, vcall, product_sync, order_sync,
                           webhook_logs, product_variants, order_line_items,
                           inventory_levels, workers, queue>>

NextRegister ==
    \/ auth
    \/ auth_callback_registers

SpecRegister == InitAuth /\ [][NextRegister]_vars

----------------------------------------------------------------------------
(* The Redis connection strings, app.py:43-48, 97-103, celery_app.py:11-20 *)

\* The largest database number a configured connection string names.
MaxDb == 3

\* A connection string is the sequence of the texts between its slashes:
\* 'redis://localhost:6379/0' is <<"redis:", "", "localhost:6379", "0">>.
RedisHosts == {"redis:6379", "localhost:6379", "cache.internal:6380"}
DbPaths == {ToString(n) : n \in 0..MaxDb}
RedisUrls ==
    {<<"redis:", "", host>> : host \in RedisHosts}
        \cup {<<"redis:", "", host, path>> : host \in RedisHosts,
                                            path \in DbPaths \cup {""}}

\* os.getenv: the environment of the process.
Unset == <<>>
Environments ==
    [FLASK_ENV : {"production", "development"}, REDIS_URL : RedisUrls \cup {Unset}]

\* app.py:45, celery_app.py:13
default_redis(env) ==
    IF env.FLASK_ENV = "production" THEN <<"redis:", "", "redis:6379", "0">>
    ELSE <<"redis:", "", "localhost:6379", "0">>
\* app.py:46, celery_app.py:14
redis_url(env) == IF env.REDIS_URL = Unset THEN default_redis(env) ELSE env.REDIS_URL
\* app.py:48: redis_url.rsplit('/', 1)[0] + '/1'
session_redis_url(env) ==
    Append(SubSeq(redis_url(env), 1, Len(redis_url(env)) - 1), "1")

\* The server and the database number redis.from_url and the broker transport
\* read from a connection string: the text after '//' and the number in the
\* path, 0 when there is none.
Database(url) ==
    [netloc |-> url[3],
     db |-> IF Len(url) >= 4 /\ url[4] # ""
            THEN CHOOSE n \in 0..MaxDb : ToString(n) = url[4]
            ELSE 0]

\* What a process has configured: nothing yet, or its connection strings.
NoConfig == [loaded |-> FALSE]
ConfigEvent(env, web, worker) ==
    Event("config", "import", None, None, 0, Json("", ""), FALSE, FALSE,
          [env |-> env, app |-> web, celery_app |-> worker], "")

\* The web process imports app.py (app.py:43-103).
import_app ==
    /\ last.kind = "config"
    /\ ~last.payload.app.loaded
    /\ last' = ConfigEvent(last.payload.env,
                           [loaded |-> TRUE,
                            session |-> session_redis_url(last.payload.env),
                            broker |-> redis_url(last.payload.env),
                            backend |-> redis_url(last.payload.env)],
                           last.payload.celery_app)
    /\ UNCHANGED <<WEBHOOK_SECRET, vcall, store, session, workers, queue>>

\* The worker process imports celery_app.py (celery_app.py:11-20).
import_celery_app ==
    /\ last.kind = "config"
    /\ ~last.payload.celery_app.loaded
    /\ last' = ConfigEvent(last.payload.env, last.payload.app,
                           [loaded |-> TRUE,
                            broker |-> redis_url(last.payload.env),
                            backend |-> redis_url(last.payload.env)])
    /\ UNCHANGED <<WEBHOOK_SECRET, vcall, store, session, workers, queue>>

InitConfig ==
    /\ WEBHOOK_SECRET = None
    /\ vcall = PendingCall(None, None)
    /\ shops = {}
    /\ product_sync = {}
    /\ order_sync = {}
    /\ webhook_logs = {}
    /\ product_variants = {}
    /\ order_line_items = {}
    /\ inventory_levels = {}
    /\ session = NoSession
    /\ workers = [w \in Workers |-> Idle]
    /\ queue = <<>>
    /\ last \in {ConfigEvent(env, NoConfig, NoConfig) : env \in Environments}

NextConfig ==
    \/ import_app
    \/ import_celery_app

SpecConfig == InitConfig /\ [][NextConfig]_vars

----------------------------------------------------------------------------
(* The signature verifier: C2 - C6, checked under SpecVerify *)

\* The verifier was called with a secret configured.
CalledWithSecret == vcall.called /\ Truthy(WEBHOOK_SECRET)

\* C2: with a shared secret configured, verify_webhook(body, sig) returns True
\* when sig is the base64 HMAC-SHA256 signature of exactly that body under the
\* secret, and False when sig is the signature of any other body.
C2_SignatureDecidesVerdict ==
    (CalledWithSecret /\ vcall.data.t = "bytes") =>
        /\ (vcall.signature = Sign(WEBHOOK_SECRET.v, vcall.data.v)
                => vcall.out.ret = TRUE)
        /\ \A b \in Bodies :
                (b # vcall.data.v /\ vcall.signature = Sign(WEBHOOK_SECRET.v, b))
                    => vcall.out.ret = FALSE

C2_Witness ==
    /\ CalledWithSecret
    /\ vcall.data.t = "bytes"
    /\ \E b \in Bodies : b # vcall.data.v /\ vcall.signature = Sign(WEBHOOK_SECRET.v, b)
    /\ vcall.out.ret = FALSE

\* The other half of C2's case: the signature of the body itself is accepted.
C2_WitnessAccepted ==
    /\ CalledWithSecret
    /\ vcall.data.t = "bytes"
    /\ vcall.signature = Sign(WEBHOOK_SECRET.v, vcall.data.v)
    /\ vcall.out.ret = TRUE

\* C3: with no shared secret configured, verify_webhook returns True for every
\* body and every signature, an absent or wrong one included.
C3_NoSecretAcceptsAll ==
    (vcall.called /\ ~Truthy(WEBHOOK_SECRET)) =>
        (vcall.out.ret = TRUE /\ ~vcall.out.raised)

C3_Witness ==
    /\ vcall.called
    /\ WEBHOOK_SECRET = None
    /\ vcall.signature = None
    /\ vcall.out.ret = TRUE

\* C4: with a shared secret configured, verify_webhook returns False whenever
\* the signature header is absent (None or empty), for every body.
C4_MissingSignatureRejected ==
    (CalledWithSecret /\ vcall.signature \in {None, Str(<<>>)}) =>
        vcall.out.ret = FALSE

C4_Witness ==
    /\ CalledWithSecret
    /\ vcall.signature = None
    /\ vcall.data.t = "bytes"
    /\ vcall.out.ret = FALSE

\* C5: with a shared secret configured, a signature whose length differs from
\* the length of the computed base64 signature is rejected, and the verdict
\* is reached before any content comparison.
C5_LengthMismatchRejected ==
    (/\ CalledWithSecret
     /\ vcall.data.t # "str"
     /\ vcall.signature.t # "none"
     /\ Len(vcall.signature.v) # Len(calculated_hmac_base64(vcall.data))) =>
        (vcall.out.ret = FALSE /\ ~vcall.out.compared)

C5_Witness ==
    /\ CalledWithSecret
    /\ vcall.data.t = "bytes"
    /\ vcall.signature.t = "str"
    /\ Len(vcall.signature.v) = Len(calculated_hmac_base64(vcall.data)) - 1
    /\ vcall.out.ret = FALSE
    /\ ~vcall.out.compared

\* C6: verify_webhook never raises: an error while computing or comparing the
\* signature gives the value False to the caller.
C6_NeverRaises ==
    vcall.called =>
        (~vcall.out.raised /\ (vcall.out.error => vcall.out.ret = FALSE))

C6_Witness ==
    /\ CalledWithSecret
    /\ vcall.out.error
    /\ ~vcall.out.raised
    /\ vcall.out.ret = FALSE

----------------------------------------------------------------------------
(* The webhook endpoints: C7 - C10, checked under Spec *)

\* The last event is a request to one of the five webhook endpoints.
IsRequest(e) == e.kind = "http" /\ e.op \in WebhookEndpoints
\* The request of the event passes verify_webhook / its body parses.
Verified(e) == verify_webhook(e.raw, e.signature).ret
Parses(e) == ~json_loads(e.raw.v).raised

\* C7: at each of the five endpoints a request whose signature verification
\* fails is answered 401 {"error": "Invalid signature"}; its body is not
\* parsed, no task is enqueued and no row of the store (WebhookLog included)
\* is created or changed.
C7_RejectedRequestDoesNothing ==
    [][(IsRequest(last') /\ ~Verified(last'))
        => /\ last'.status = 401
           /\ last'.body = Json("error", "Invalid signature")
           /\ ~last'.parsed
           /\ ~last'.enqueued
           /\ queue' = queue
           /\ UNCHANGED store]_vars

\* A request with a wrong signature and a body that would parse is answered
\* 401 at the last of the endpoints while the queue has room and the store
\* holds rows.
C7_Witness ==
    /\ IsRequest(last)
    /\ last.op = "/webhooks/shop/redact"
    /\ Truthy(last.signature)
    /\ ~Verified(last)
    /\ Parses(last)
    /\ last.status = 401
    /\ Len(queue) < MaxQueue
    /\ product_sync # {}

\* C8: a request with a valid signature whose body is no parsable JSON is
\* answered 400 {"error": "Invalid JSON"}; no task is enqueued for it and no
\* WebhookLog row (no row of the store at all) is created or changed.
C8_MalformedBodyRejected ==
    [][(IsRequest(last') /\ Verified(last') /\ ~Parses(last'))
        => /\ last'.status = 400
           /\ last'.body = Json("error", "Invalid JSON")
           /\ ~last'.enqueued
           /\ queue' = queue
           /\ UNCHANGED store]_vars

\* A body that is no UTF-8, signed with the configured secret, is answered
\* 400 while the queue has room.
C8_Witness ==
    /\ IsRequest(last)
    /\ Truthy(WEBHOOK_SECRET)
    /\ last.signature = Sign(WEBHOOK_SECRET.v, last.raw.v)
    /\ last.raw = Bytes(BadUtf8Body)
    /\ last.status = 400
    /\ Len(queue) < MaxQueue

\* C9: every request that passes verification and parses as JSON is answered
\* 200; the status body is 'success' exactly when the enqueue call returned
\* and 'queued with errors' exactly when it raised.
C9_AckReflectsEnqueue ==
    (IsRequest(last) /\ Verified(last) /\ Parses(last))
        => /\ last.status = 200
           /\ (last.body = Json("status", "success")) <=> last.enqueued
           /\ (last.body = Json("status", "queued with errors")) <=> ~last.enqueued

\* C10: the product of the scenario, posted to /webhooks/products/create with
\* a valid signature and queued, is answered 200 {"status": "success"}; once
\* the worker has processed the task a ProductSync row with product_id 555,
\* title "Widget" and handle "widget" exists (a shop being installed).
C10_ScenarioCreatesProductRow ==
    /\ (/\ IsRequest(last)
        /\ last.op = "/webhooks/products/create"
        /\ last.raw = Bytes(json_dumps(ProductDoc))
        /\ Verified(last)
        /\ last.enqueued)
           => (last.status = 200 /\ last.body = Json("status", "success"))
    /\ (/\ last.kind = "task"
        /\ last.op = "process_product_webhook"
        /\ last.payload = ProductDoc
        /\ shops # {})
           => \E r \in product_sync :
                  r.product_id = 555 /\ r.title = "Widget" /\ r.handle = "widget"

----------------------------------------------------------------------------
(* The upserts: C1, checked under SpecUpsert *)

\* A payload that carries the vendor id and the three fields.
CompleteProduct(p) ==
    IsDict(p) /\ Has(p, "id") /\ Has(p, "title") /\ Has(p, "handle") /\ Has(p, "status")

\* The event processed a product payload for a shop that exists: the webhook
\* processor its payload, the sync task a page of complete payloads of one
\* vendor id.
UpsertRan(e) ==
    /\ e.kind = "task"
    /\ \/ /\ e.op = "process_product_webhook"
          /\ CompleteProduct(e.payload)
          /\ Has(e.payload, "shop_domain")
          /\ ShopsByDomain(e.payload.shop_domain) # {}
       \/ /\ e.op = "sync_products_task"
          /\ e.outcome = "completed"
          /\ e.payload.products # <<>>
          /\ \A i \in 1..Len(e.payload.products) :
                 /\ CompleteProduct(e.payload.products[i])
                 /\ e.payload.products[i].id = e.payload.products[1].id
\* The payload processed last by the event, and the shop it was processed for.
UpsertPayload(e) ==
    IF e.op = "process_product_webhook" THEN e.payload
    ELSE e.payload.products[Len(e.payload.products)]
UpsertShopId(e) ==
    IF e.op = "process_product_webhook"
    THEN First(ShopsByDomain(e.payload.shop_domain)).id
    ELSE e.payload.shop_id

\* C1: after a product payload P was processed for shop S, by the webhook
\* processor or by the sync task, exactly one ProductSync row exists for
\* (S, P.id) and its title, handle and status are those of P; when a row
\* existed before, it was updated in place and no row was inserted.
C1_UpsertIdempotent ==
    [][UpsertRan(last')
        => LET P == UpsertPayload(last')
               S == UpsertShopId(last')
           IN  /\ Cardinality(ProductsOf(product_sync', S, P.id)) = 1
               /\ \A r \in ProductsOf(product_sync', S, P.id) :
                      r.title = P.title /\ r.handle = P.handle /\ r.status = P.status
               /\ ProductsOf(product_sync, S, P.id) # {}
                      => {r.id : r \in product_sync'} = {r.id : r \in product_sync}]_vars

----------------------------------------------------------------------------
(* The compliance tasks: C11 - C13, checked under Spec *)

\* The event is a run of the compliance task op on a payload that is a JSON
\* object.
ComplianceRan(e, op) == e.kind = "task" /\ e.op = op /\ IsDict(e.payload)
\* The domain the payload names ("" when it names none).
PayloadDomain(e) == Get(e.payload, "shop_domain", "")
\* The rows of a table that belong to the shop with the id sid.
RowsOfShop(table, sid) == {r \in table : r.shop_id = sid}
\* The line items of the orders of the shop sid (OrderLineItem refers to its
\* order, models.py:116).
LineItemsOfShop(items, orders, sid) ==
    {i \in items : \E o \in RowsOfShop(orders, sid) : i.order_sync_id = o.id}
\* The audit rows a step added.
NewLogs == webhook_logs' \ webhook_logs

\* C11: after process_shop_redact ran for a domain whose Shop row exists, the
\* store holds no OrderSync, ProductSync, InventoryLevel or OrderLineItem row
\* of that shop, no Shop row of the domain, and no WebhookLog row of the shop
\* but the one the task added, which has status 'completed'.
C11_ShopRedactDeletesAll ==
    [][(/\ ComplianceRan(last', "process_shop_redact")
        /\ ShopsByDomain(PayloadDomain(last')) # {})
        => LET sid == First(ShopsByDomain(PayloadDomain(last'))).id
           IN  /\ \A shop \in shops' : shop.shop_domain # PayloadDomain(last')
               /\ RowsOfShop(order_sync', sid) = {}
               /\ RowsOfShop(product_sync', sid) = {}
               /\ RowsOfShop(inventory_levels', sid) = {}
               /\ LineItemsOfShop(order_line_items', order_sync, sid) = {}
               /\ RowsOfShop(webhook_logs', sid) = RowsOfShop(NewLogs, sid)
               /\ Cardinality(RowsOfShop(NewLogs, sid)) = 1
               /\ \A w \in RowsOfShop(NewLogs, sid) :
                      w.webhook_type = "shop/redact" /\ w.status = "completed"]_vars

\* C12: shop redact invoked for a domain whose Shop row exists deletes the
\* shop and its dependent rows; invoked for a domain without a Shop row (the
\* second invocation) it deletes nothing, raises no error and ends with the
\* audit outcome 'completed'.
C12_ShopRedactTwice ==
    [][ComplianceRan(last', "process_shop_redact")
        => IF ShopsByDomain(PayloadDomain(last')) # {}
           THEN LET sid == First(ShopsByDomain(PayloadDomain(last'))).id
                IN  /\ ShopsByDomain(PayloadDomain(last'))
                           \cap shops' = {}
                    /\ RowsOfShop(order_sync', sid) = {}
                    /\ RowsOfShop(product_sync', sid) = {}
           ELSE /\ shops' = shops
                /\ product_sync' = product_sync
                /\ order_sync' = order_sync
                /\ last'.outcome = "committed"
                /\ \E w \in NewLogs : w.status = "completed"
                /\ \A w \in NewLogs : w.status # "failed"]_vars

\* C13: every invocation of process_customer_data_request and of
\* process_customer_redact, for a shop with or without a local record, ends
\* without error and leaves the audit row it created with status
\* 'completed'.
C13_CustomerTasksComplete ==
    [][(\/ ComplianceRan(last', "process_customer_data_request")
        \/ ComplianceRan(last', "process_customer_redact"))
        => /\ last'.outcome = "committed"
           /\ Cardinality(NewLogs) = 1
           /\ \A w \in NewLogs : w.status = "completed"]_vars

----------------------------------------------------------------------------
(* The audit log: C14, C15, checked under SpecAudit *)

WebhookLogStatuses == {"processing", "completed", "failed"}

\* C14: the status of every WebhookLog row is monotonic: a row starts at
\* 'processing', may move once to 'completed' or 'failed', and never changes
\* again.  (A task is one step: a row it created and moved on may first be
\* seen with its terminal status.)
C14_LogStatusMonotonic ==
    [][\A n \in webhook_logs' :
           IF \E w \in webhook_logs : w.id = n.id
           THEN \A w \in webhook_logs :
                    w.id = n.id =>
                        \/ n.status = w.status
                        \/ /\ w.status = "processing"
                           /\ n.status \in {"completed", "failed"}
           ELSE n.status \in WebhookLogStatuses]_vars

\* C15: in every reachable state the status of every WebhookLog row is one of
\* 'processing', 'completed', 'failed'.
C15_LogStatusVocabulary ==
    \A w \in webhook_logs : w.status \in WebhookLogStatuses

----------------------------------------------------------------------------
(* Uniqueness under concurrent workers: C16, checked under SpecConc *)

\* C16: in every reachable state, every interleaving of two workers that
\* upsert the same vendor id for the same shop included, there is at most one
\* ProductSync row per (shop, product id), at most one OrderSync row per
\* (shop, order id) and at most one InventoryLevel row per (shop, inventory
\* item id, location id).
C16_VendorIdsUnique ==
    /\ \A r, q \in product_sync :
           (r.shop_id = q.shop_id /\ r.product_id = q.product_id) => r = q
    /\ \A r, q \in order_sync :
           (r.shop_id = q.shop_id /\ r.order_id = q.order_id) => r = q
    /\ \A r, q \in inventory_levels :
           (/\ r.shop_id = q.shop_id
            /\ r.inventory_item_id = q.inventory_item_id
            /\ r.location_id = q.location_id) => r = q

----------------------------------------------------------------------------
(* C17: upserts are scoped by shop *)

ScopeOps ==
    {"process_product_webhook", "sync_products_task", "sync_inventory_task"}

\* The ids of the shops an upsert step ran for.
ScopeShopIds(e) ==
    IF e.op = "process_product_webhook"
    THEN {shop.id : shop \in ShopsByDomain(e.payload.shop_domain)}
    ELSE {e.payload.shop_id}

\* The rows of a table that belong to none of the shops.
RowsOfOthers(table, sids) == {r \in table : r.shop_id \notin sids}
\* The child rows whose parent row belongs to none of the shops.
VariantsOfOthers(variants, products, sids) ==
    {v \in variants :
        \E p \in RowsOfOthers(products, sids) : p.id = v.product_sync_id}
ItemsOfOthers(items, orders, sids) ==
    {i \in items : \E o \in RowsOfOthers(orders, sids) : o.id = i.order_sync_id}

\* C17: a sync task or webhook processor that upserts a vendor resource for
\* shop S leaves every row of every other shop as it was: no product, order,
\* inventory level, variant or line item of another shop is changed, added or
\* removed, whatever vendor ids the other shops' rows carry.
C17_UpsertScopedByShop ==
    [][(last'.kind = "task" /\ last'.op \in ScopeOps) =>
        \E sids \in {ScopeShopIds(last')} :
            /\ RowsOfOthers(product_sync', sids) = RowsOfOthers(product_sync, sids)
            /\ RowsOfOthers(order_sync', sids) = RowsOfOthers(order_sync, sids)
            /\ RowsOfOthers(inventory_levels', sids)
                   = RowsOfOthers(inventory_levels, sids)
            /\ VariantsOfOthers(product_variants', product_sync', sids)
                   = VariantsOfOthers(product_variants, product_sync, sids)
            /\ ItemsOfOthers(order_line_items', order_sync', sids)
                   = ItemsOfOthers(order_line_items, order_sync, sids)]_vars

\* A product upsert for one shop has run while another shop holds a row with
\* the same vendor id and another title.
C17_Witness ==
    /\ last.kind = "task"
    /\ last.op \in {"process_product_webhook", "sync_products_task"}
    /\ last.outcome \in {"committed", "completed"}
    /\ \E r \in product_sync, q \in product_sync :
           /\ r.shop_id \in ScopeShopIds(last)
           /\ q.shop_id \notin ScopeShopIds(last)
           /\ q.product_id = r.product_id
           /\ q.title # r.title
           /\ Has(last.payload, "products") => last.payload.products # <<>>

----------------------------------------------------------------------------
(* C18: what changes the Shop rows *)

\* C18: the Shop rows change only in a successful OAuth token exchange, which
\* adds a row for a domain that had none or replaces the token of the
\* domain's row in place, and in shop redact, which only removes rows; every
\* other operation (sync task, product and order webhook processing, customer
\* data request, customer redact, a refused or failed OAuth request) leaves
\* them as they were; and no two Shop rows ever share a domain.
C18_ShopRowsChangeOnlyByOAuthOrRedact ==
    [][/\ shops' # shops =>
            \/ /\ last'.kind = "http" /\ last'.op = "auth_callback"
               /\ last'.status = 200
               /\ last'.payload.exchange.raised = ""
               /\ LET before == ShopsByDomain(last'.payload.shop)
                      row == [id |-> IF before = {} THEN NextId(shops)
                                     ELSE First(before).id,
                              shop_domain |-> last'.payload.shop,
                              access_token |-> last'.payload.exchange.access_token]
                  IN  /\ Cardinality(before) <= 1
                      /\ shops' = (shops \ before) \cup {row}
            \/ /\ last'.kind = "task" /\ last'.op = "process_shop_redact"
               /\ shops' \subseteq shops
       /\ \A a \in shops', b \in shops' : a.shop_domain = b.shop_domain => a = b]_vars

\* A successful callback has replaced the token of an installed shop while
\* another shop is installed too.
C18_Witness ==
    /\ last.kind = "http" /\ last.op = "auth_callback"
    /\ last.outcome = "updated"
    /\ Cardinality(shops) = 2
    /\ \E r \in shops : /\ r.shop_domain = last.payload.shop
                        /\ r.access_token = last.payload.exchange.access_token
    /\ product_sync # {}

----------------------------------------------------------------------------
(* C19: the sync triggers *)

TriggerOps == {"/api/sync/products", "/api/sync/orders"}
\* The body of a trigger request names a shop.
HasShopParameter(body) == IsDict(body) /\ Has(body, "shop")

\* C19: a POST to a sync trigger puts exactly one sync task in the queue and
\* answers 200 with an acknowledgment message exactly when a Shop row exists
\* for the domain of the request; for a domain without Shop row it answers
\* 404 {"error": "Shop not found"}, for a request without shop parameter it
\* answers 400, and in these two cases the queue is left as it was.
C19_TriggerEnqueuesIffShopExists ==
    [][(last'.kind = "http" /\ last'.op \in TriggerOps) =>
        LET body == last'.payload
            known == HasShopParameter(body) /\ ShopsByDomain(body.shop) # {}
            acknowledged == /\ Len(queue') = Len(queue) + 1
                            /\ SubSeq(queue', 1, Len(queue)) = queue
                            /\ last'.status = 200
                            /\ last'.body.key = "message"
        IN  /\ known <=> acknowledged
            /\ (HasShopParameter(body) /\ ~known) =>
                   /\ last'.status = 404
                   /\ last'.body = Json("error", "Shop not found")
                   /\ queue' = queue
            /\ ~HasShopParameter(body) =>
                   /\ last'.status = 400
                   /\ queue' = queue]_vars

----------------------------------------------------------------------------
(* C20: a failing resource does not abort the batch *)

BatchOps == {"sync_products_task", "sync_orders_task", "sync_inventory_task"}

\* The keys a resource's upsert reads whether or not the row exists, and the
\* key of its children.
RequiredKeys(op) ==
    IF op = "sync_products_task" THEN {"id", "title", "handle", "status"}
    ELSE IF op = "sync_orders_task" THEN {"id", "status", "total_price", "currency"}
    ELSE {"inventory_item_id", "location_id", "available"}
ChildrenOf(op, resource) ==
    IF op = "sync_products_task" THEN Get(resource, "variants", <<>>)
    ELSE IF op = "sync_orders_task" THEN Get(resource, "line_items", <<>>)
    ELSE <<>>
\* The upsert of the resource raises.
UpsertRaises(op, resource) ==
    \/ ~(RequiredKeys(op) \subseteq DOMAIN resource)
    \/ \E i \in 1..Len(ChildrenOf(op, resource)) :
           ~Has(ChildrenOf(op, resource)[i], "id")
\* The table holds a row of the shop for the resource.
Stored(op, shop_id, resource) ==
    IF op = "sync_products_task"
    THEN ProductsOf(product_sync, shop_id, resource.id) # {}
    ELSE IF op = "sync_orders_task"
    THEN OrdersOf(order_sync, shop_id, resource.id) # {}
    ELSE LevelsOf(inventory_levels, shop_id, resource.inventory_item_id,
                  resource.location_id) # {}

----------------------------------------------------------------------------
(* C21: the vendor is unreachable during a sync *)

FetchOps ==
    {"tasks.sync_products_task", "tasks.sync_inventory_task",
     "app.sync_products_task", "app.sync_orders_task"}

\* C21: a sync task that finds the vendor unreachable (the connection test
\* fails or the fetch raises) is aborted as a whole: it ends by raising, so
\* that the task runner records a failure, and no row of the store is
\* inserted or updated by it.
C21_UnreachableVendorAbortsSync ==
    [][(last'.kind = "task" /\ last'.op \in FetchOps /\ ~last'.payload.connected) =>
        /\ last'.outcome = "raised"
        /\ store' = store]_vars

----------------------------------------------------------------------------
(* C23: failures inside the webhook-processing tasks *)

ProcessorOps ==
    {"process_product_webhook", "process_order_webhook",
     "tasks.process_product_webhook", "tasks.process_order_webhook",
     "process_customer_data_request", "process_customer_redact",
     "process_shop_redact"}

\* C23: whatever fails inside a webhook-processing task (product, order, data
\* request, customer redact, shop redact) is caught at the task boundary: no
\* run of such a task ends with an exception leaving it, and the audit row a
\* failing run created shows the failure.
C23_FailuresCaughtAtTaskBoundary ==
    [][(last'.kind = "task" /\ last'.op \in ProcessorOps) =>
        /\ last'.outcome # "raised"
        /\ last'.outcome = "error" =>
               \A w \in NewLogs : w.status \in {"failed", "error"}]_vars

----------------------------------------------------------------------------
(* C24, C25: the OAuth callback and the registration of the webhooks *)

\* The callback was one whose token exchange succeeded after the state check.
ExchangeSucceeded(e) ==
    /\ e.kind = "http" /\ e.op = "auth_callback"
    /\ e.outcome \in {"inserted", "updated", "raised"}
    /\ e.payload.exchange.raised = ""
\* The Shop row of the callback's domain holds the token just issued.
TokenStored(e) ==
    \E r \in shops : /\ r.shop_domain = e.payload.shop
                     /\ r.access_token = e.payload.exchange.access_token
\* The topics before the first one whose registration raised something else
\* than a request error, that one included.
TopicsUntilUnexpected(outcomes) ==
    LET stops == {i \in 1..Len(ComplianceTopics) : outcomes[i] = "unexpected_error"}
    IN  IF stops = {} THEN ComplianceTopics
        ELSE SubSeq(ComplianceTopics, 1,
                    CHOOSE i \in stops : \A k \in stops : i <= k)

CompleteCallback(e) ==
    /\ e.kind = "http" /\ e.op = "auth_callback"
    /\ e.payload.code # "" /\ e.payload.shop # "" /\ e.payload.state # ""
    /\ e.payload.exchange.raised = ""
\* The answer is 200 with the access token in its body.
AnswersToken(e) ==
    /\ e.status = 200
    /\ "access_token" \in DOMAIN e.body
    /\ e.body.access_token = e.payload.exchange.access_token

----------------------------------------------------------------------------
(* C26: the Redis databases of the sessions and of the task queue *)

\* C26: for every configured connection string, the Redis database that holds
\* the sessions is another one than the database that is the broker and the
\* result backend of the task queue, in the web process and in the worker.
C26_SessionDbSeparate ==
    (last.kind = "config" /\ last.payload.app.loaded) =>
        /\ Database(last.payload.app.session) # Database(last.payload.app.broker)
        /\ Database(last.payload.app.session) # Database(last.payload.app.backend)
        /\ last.payload.celery_app.loaded =>
               /\ Database(last.payload.app.session)
                      # Database(last.payload.celery_app.broker)
               /\ Database(last.payload.app.session)
                      # Database(last.payload.celery_app.backend)

----------------------------------------------------------------------------
(* C27: one audit row per processed webhook *)

\* C27: every verified webhook a worker processes (products/create,
\* orders/create, customers/data_request, customers/redact, shop/redact) has
\* exactly one WebhookLog row created for it, and the rows that exist are from
\* then on changed only by a move of their status to 'completed' or 'failed'.
C27_OneLogRowPerWebhook ==
    [][(last'.kind = "task" /\ last'.op \in ProcessorOps) =>
        /\ Cardinality({n \in webhook_logs' :
                            \A w \in webhook_logs : w.id # n.id}) = 1
        /\ \A w \in webhook_logs :
               \E n \in webhook_logs' :
                   /\ n.id = w.id
                   /\ \/ n = w
                      \/ n = [w EXCEPT !.status = "completed"]
                      \/ n = [w EXCEPT !.status = "failed"]]_vars

----------------------------------------------------------------------------
(* C28: no deletion by absence *)

\* The ids of the children (variants, line_items) that the payloads of a batch
\* carry for the resource with the vendor id resource_id.
ChildIdsInBatch(batch, resource_id, key) ==
    {c.id : c \in {batch[i][key][j] :
                      <<i, j>> \in {x \in (1..Len(batch)) \X (1..MaxBatch) :
                                       /\ Has(batch[x[1]], "id")
                                       /\ batch[x[1]].id = resource_id
                                       /\ Has(batch[x[1]], key)
                                       /\ x[2] <= Len(batch[x[1]][key])}}}

\* C28: a run of the product sync leaves every ProductVariant row whose
\* variant id no payload of the run carries for its product as it was, neither
\* deleted nor modified; a run of the order sync does the same with the
\* OrderLineItem rows whose line item id no payload carries for their order.
C28_NoDeletionByAbsence ==
    [][(last'.kind = "task" /\ last'.op \in {"sync_products_task", "sync_orders_task"}) =>
        LET batch == last'.payload.batch
        IN  /\ \A v \in product_variants :
                   (\A p \in product_sync :
                        p.id = v.product_sync_id =>
                            \/ last'.op # "sync_products_task"
                            \/ v.variant_id \notin
                                   ChildIdsInBatch(batch, p.product_id, "variants"))
                       => v \in product_variants'
            /\ \A l \in order_line_items :
                   (\A o \in order_sync :
                        o.id = l.order_sync_id =>
                            \/ last'.op # "sync_orders_task"
                            \/ l.line_item_id \notin
                                   ChildIdsInBatch(batch, o.order_id, "line_items"))
                       => l \in order_line_items']_vars

\* Variant 9001 and line item 7001 were stored, the product and the order were
\* since synced from payloads that carry other children only, and both rows
\* are still there as they were stored.
C28_Witness ==
    /\ last.kind = "task" /\ last.op = "sync_orders_task"
    /\ last.outcome = "completed"
    /\ last.payload.batch = <<SyncOrderDoc2>>
    /\ \E l \in order_line_items : l.line_item_id = 7001 /\ l.title = "Widget"
    /\ \E l \in order_line_items : l.line_item_id = 7002
    /\ \E v \in product_variants : v.variant_id = 9001 /\ v.title = "Default"
    /\ \E v \in product_variants : v.variant_id = 9002

----------------------------------------------------------------------------
(* C29: the payload processed last wins *)

\* C29: the processors resolve no conflict by timestamp.  After a product
\* processor ran on a payload for an installed shop, the one local row of that
\* (shop, product id) carries the title and the handle of that payload,
\* whatever the updated_at of the payload and whatever was stored before; after
\* an order processor ran, the one row of that (shop, order id) carries the
\* status, total price and currency of its payload.
C29_LastProcessedWins ==
    [][(last'.kind = "task" /\ "previous" \in DOMAIN last') =>
        LET data == last'.payload
            products == {p \in product_sync' : p.product_id = data.id}
            orders == {o \in order_sync' : o.order_id = data.id}
        IN  IF last'.op \in {"process_product_webhook", "tasks.process_product_webhook"}
            THEN /\ Cardinality(products) = 1
                 /\ \A p \in products :
                        /\ p.shop_id = ShopA.id
                        /\ p.title = data.title
                        /\ p.handle = data.handle
            ELSE /\ Cardinality(orders) = 1
                 /\ \A o \in orders :
                        /\ o.shop_id = ShopA.id
                        /\ o.status = data.financial_status
                        /\ o.total_price = float(data.total_price).value
                        /\ o.currency = data.currency]_vars

\* The newer payload was processed, then the older one: the local row shows
\* the older state of the product.
C29_Witness ==
    /\ last.kind = "task" /\ "previous" \in DOMAIN last
    /\ last.payload = ProductDocEarlier
    /\ \E p \in last.previous :
           p.title = ProductDocLater.title /\ p.handle = ProductDocLater.handle
    /\ \E p \in product_sync :
           /\ p.product_id = ProductDocEarlier.id
           /\ p.title = ProductDocEarlier.title
           /\ p.handle = ProductDocEarlier.handle
    /\ Earlier(last.payload.updated_at, ProductDocLater.updated_at)

----------------------------------------------------------------------------
(* C30: the customer compliance tasks leave the synced data alone *)

\* C30: a run of process_customer_data_request or of process_customer_redact
\* leaves every Shop, ProductSync, ProductVariant, OrderSync, OrderLineItem and
\* InventoryLevel row as it was, whatever the payload, the orders it lists
\* for redaction included.
C30_CustomerTasksKeepData ==
    [][(last'.kind = "task"
            /\ last'.op \in {"process_customer_data_request",
                             "process_customer_redact"}) =>
        /\ shops' = shops
        /\ product_sync' = product_sync
        /\ product_variants' = product_variants
        /\ order_sync' = order_sync
        /\ order_line_items' = order_line_items
        /\ inventory_levels' = inventory_levels]_vars

\* A redaction that lists order 1001 ran on a store that holds that order with
\* a line item, a product with a variant and an inventory level.
C30_Witness ==
    /\ last.kind = "task" /\ last.op = "process_customer_redact"
    /\ last.payload = CustomerRedactDoc
    /\ \E o \in order_sync :
           /\ o.order_id = 1001
           /\ \E i \in 1..Len(last.payload.orders_to_redact) :
                  last.payload.orders_to_redact[i] = o.order_id
           /\ \E l \in order_line_items : l.order_sync_id = o.id
    /\ \E p \in product_sync : \E v \in product_variants : v.product_sync_id = p.id
    /\ inventory_levels # {}

----------------------------------------------------------------------------
(* C32: no data for a redacted shop *)

\* Every ProductSync, OrderSync and InventoryLevel row of the tables given
\* refers to a Shop row of the table given.
RefersToShop(shop_rows, products, orders, levels) ==
    \A r \in products \cup orders \cup levels :
        \E shop \in shop_rows : shop.id = r.shop_id

----------------------------------------------------------------------------
(* C33: children and their parents *)

\* C33: in every state, the states after a shop redact among them, every
\* ProductVariant row refers to a ProductSync row that exists and every
\* OrderLineItem row to an OrderSync row that exists.
C33_NoOrphanChildren ==
    /\ \A v \in product_variants : \E p \in product_sync : p.id = v.product_sync_id
    /\ \A l \in order_line_items : \E o \in order_sync : o.id = l.order_sync_id

\* The shop redact of a.myshopify.com ran on a store that holds a variant and
\* a line item of that shop.
C33_Witness ==
    /\ last.kind = "task" /\ last.op = "process_shop_redact"
    /\ ComplianceShopId(last.payload) = ShopA.id
    /\ product_variants # {}
    /\ order_line_items # {}

----------------------------------------------------------------------------
(* C35: what a skipped resource leaves in the commit *)

\* The rows of the store written on behalf of the resource with the vendor id
\* resource_id: its parent rows and their children.
RowsOnBehalf(op, parents, children, resource_id) ==
    IF op = "sync_products_task"
    THEN {p \in parents : p.product_id = resource_id} \cup
         {v \in children : \E p \in parents :
                               p.product_id = resource_id /\ p.id = v.product_sync_id}
    ELSE {o \in parents : o.order_id = resource_id} \cup
         {l \in children : \E o \in parents :
                               o.order_id = resource_id /\ l.order_sync_id = o.id}

----------------------------------------------------------------------------
(* C36: the OAuth state gates the Shop rows and is used once *)

====
